---- MODULE Spec2Model ----
(***************************************************************************)
(* Streaming relay of the chat function: the upstream chunk reassembler    *)
(* (GeminiClient.generateStreamingResponse), the event stream emitter      *)
(* (SSEStream) and the relay that composes them                            *)
(* (ChatService.handleStreamingChat / processStreamingResponse).           *)
(*                                                                         *)
(* Text is a sequence of one-character strings.  The characters the        *)
(* model's inputs are drawn from hold no digit and no minus sign, so no    *)
(* JSON number token occurs in any input.                                  *)
(***************************************************************************)
EXTENDS Integers, Sequences, FiniteSets, TLC

\* ------------------------------------------------------------------------
\* Characters and text helpers
\* ------------------------------------------------------------------------
QT == "\""

BS == "\\"

NL == "\n"

\* /[\s,]/ of the reassembler, over the model's characters
IsSepChar(c) == c \in {" ", "\n", "\t", "\r", ","}

IsPrefix(a, b) == Len(a) <= Len(b) /\ SubSeq(b, 1, Len(a)) = a

\* String.prototype.substring(from), with a 1-based first index
Substring(s, from) == SubSeq(s, from, Len(s))

\* ------------------------------------------------------------------------
\* JavaScript values as JSON.parse builds them
\*   t : "obj" | "arr" | "str" | "true" | "false" | "null" | "undefined"
\*   s : the characters of a string
\*   k : the keys of an object, in source order
\*   e : the members of an object (aligned with k) or the elements of an array
\* ------------------------------------------------------------------------
JVal(t, s, k, e) == [t |-> t, s |-> s, k |-> k, e |-> e]

Undefined == JVal("undefined", <<>>, <<>>, <<>>)

JStr(s) == JVal("str", s, <<>>, <<>>)

JObj(k, e) == JVal("obj", <<>>, k, e)

JArr(e) == JVal("arr", <<>>, <<>>, e)

JLit(t) == JVal(t, <<>>, <<>>, <<>>)

\* ToBoolean: objects and arrays are truthy, the empty string is falsy
Truthy(v) == \/ v.t \in {"obj", "arr", "true"}
             \/ v.t = "str" /\ v.s # <<>>

\* v[key] for a string key: the last member of that name wins in an object
GetProp(v, key) ==
  IF v.t = "obj" /\ \E j \in 1..Len(v.k) : v.k[j] = key
  THEN v.e[CHOOSE j \in 1..Len(v.k) :
              v.k[j] = key /\ \A h \in (j+1)..Len(v.k) : v.k[h] # key]
  ELSE Undefined

\* v[0]
GetFirst(v) ==
  IF v.t = "arr" THEN (IF Len(v.e) > 0 THEN v.e[1] ELSE Undefined)
  ELSE IF v.t = "str" THEN (IF Len(v.s) > 0 THEN JStr(<<v.s[1]>>) ELSE Undefined)
  ELSE GetProp(v, <<"0">>)

\* ------------------------------------------------------------------------
\* JSON.parse (ECMA-404 grammar without numbers)
\* A parse result is [ok, v, i]: success, the value, the index after it.
\* ------------------------------------------------------------------------
JsonWs == {" ", "\n", "\t", "\r"}

HexDigits == {"a", "b", "c", "d", "e", "f", "A", "B", "C", "D", "E", "F",
              "0", "1", "2", "3", "4", "5", "6", "7", "8", "9"}

ParseFail == [ok |-> FALSE, v |-> Undefined, i |-> 0]

ParseOk(v, i) == [ok |-> TRUE, v |-> v, i |-> i]

RECURSIVE SkipWs(_, _)
SkipWs(s, i) == IF i <= Len(s) /\ s[i] \in JsonWs THEN SkipWs(s, i + 1) ELSE i

\* the character an escape letter stands for
Unescape(c) == CASE c = "n" -> "\n"
                 [] c = "t" -> "\t"
                 [] c = "r" -> "\r"
                 [] c = "f" -> "\f"
                 [] c = "b" -> "<backspace>"
                 [] OTHER -> c

\* the characters of a string literal whose opening quote is at i - 1
RECURSIVE ParseChars(_, _, _)
ParseChars(s, i, acc) ==
  IF i > Len(s) THEN ParseFail
  ELSE IF s[i] = QT THEN ParseOk(JStr(acc), i + 1)
  ELSE IF s[i] = BS THEN
    IF i + 1 > Len(s) THEN ParseFail
    ELSE IF s[i + 1] \in {QT, BS, "/", "b", "f", "n", "r", "t"}
      THEN ParseChars(s, i + 2, Append(acc, Unescape(s[i + 1])))
    ELSE IF /\ s[i + 1] = "u"
            /\ i + 5 <= Len(s)
            /\ \A j \in 2..5 : s[i + j] \in HexDigits
      THEN ParseChars(s, i + 6,
             Append(acc, "u+" \o s[i + 2] \o s[i + 3] \o s[i + 4] \o s[i + 5]))
    ELSE ParseFail
  ELSE IF s[i] \in {"\n", "\t", "\r", "\f"} THEN ParseFail
  ELSE ParseChars(s, i + 1, Append(acc, s[i]))

MatchesAt(s, i, w) == i + Len(w) - 1 <= Len(s) /\ SubSeq(s, i, i + Len(w) - 1) = w

RECURSIVE ParseValue(_, _)
RECURSIVE ParseMembers(_, _, _, _)
RECURSIVE ParseElements(_, _, _)

\* members of an object; i is where the next key has to start
ParseMembers(s, i, keys, vals) ==
  IF i > Len(s) \/ s[i] # QT THEN ParseFail
  ELSE LET key == ParseChars(s, i + 1, <<>>) IN
    IF ~key.ok THEN ParseFail
    ELSE LET colon == SkipWs(s, key.i) IN
      IF colon > Len(s) \/ s[colon] # ":" THEN ParseFail
      ELSE LET val == ParseValue(s, SkipWs(s, colon + 1)) IN
        IF ~val.ok THEN ParseFail
        ELSE LET next == SkipWs(s, val.i)
                 keys2 == Append(keys, key.v.s)
                 vals2 == Append(vals, val.v)
             IN IF next > Len(s) THEN ParseFail
                ELSE IF s[next] = "," THEN ParseMembers(s, SkipWs(s, next + 1), keys2, vals2)
                ELSE IF s[next] = "}" THEN ParseOk(JObj(keys2, vals2), next + 1)
                ELSE ParseFail

\* elements of an array; i is where the next element has to start
ParseElements(s, i, elems) ==
  LET val == ParseValue(s, i) IN
    IF ~val.ok THEN ParseFail
    ELSE LET next == SkipWs(s, val.i)
             elems2 == Append(elems, val.v)
         IN IF next > Len(s) THEN ParseFail
            ELSE IF s[next] = "," THEN ParseElements(s, SkipWs(s, next + 1), elems2)
            ELSE IF s[next] = "]" THEN ParseOk(JArr(elems2), next + 1)
            ELSE ParseFail

\* a value starting exactly at i
ParseValue(s, i) ==
  IF i > Len(s) THEN ParseFail
  ELSE IF s[i] = "{" THEN
    LET j == SkipWs(s, i + 1) IN
      IF j <= Len(s) /\ s[j] = "}" THEN ParseOk(JObj(<<>>, <<>>), j + 1)
      ELSE ParseMembers(s, j, <<>>, <<>>)
  ELSE IF s[i] = "[" THEN
    LET j == SkipWs(s, i + 1) IN
      IF j <= Len(s) /\ s[j] = "]" THEN ParseOk(JArr(<<>>), j + 1)
      ELSE ParseElements(s, j, <<>>)
  ELSE IF s[i] = QT THEN ParseChars(s, i + 1, <<>>)
  ELSE IF MatchesAt(s, i, <<"t", "r", "u", "e">>) THEN ParseOk(JLit("true"), i + 4)
  ELSE IF MatchesAt(s, i, <<"f", "a", "l", "s", "e">>) THEN ParseOk(JLit("false"), i + 5)
  ELSE IF MatchesAt(s, i, <<"n", "u", "l", "l">>) THEN ParseOk(JLit("null"), i + 4)
  ELSE ParseFail

\* JSON.parse(s): [ok |-> FALSE] stands for the SyntaxError it throws
JsonParse(s) ==
  LET r == ParseValue(s, SkipWs(s, 1)) IN
    IF r.ok /\ SkipWs(s, r.i) = Len(s) + 1 THEN r ELSE ParseFail

\* ------------------------------------------------------------------------
\* Upstream Chunk Reassembler: GeminiClient.generateStreamingResponse
\* ------------------------------------------------------------------------
W_candidates == <<"c", "a", "n", "d", "i", "d", "a", "t", "e", "s">>

W_content == <<"c", "o", "n", "t", "e", "n", "t">>

W_parts == <<"p", "a", "r", "t", "s">>

W_text == <<"t", "e", "x", "t">>

\* buffer.replace(/^[\s,]+/, '')
RECURSIVE StripLeading(_)
StripLeading(buffer) ==
  IF buffer # <<>> /\ IsSepChar(Head(buffer)) THEN StripLeading(Tail(buffer)) ELSE buffer

\* while (startIndex < buffer.length && /[\s,]/.test(buffer[startIndex])) startIndex++
RECURSIVE SkipSep(_, _)
SkipSep(buffer, startIndex) ==
  IF startIndex <= Len(buffer) /\ IsSepChar(buffer[startIndex])
  THEN SkipSep(buffer, startIndex + 1) ELSE startIndex

\* buffer.indexOf(c, from); 0 stands for -1 (indices are 1-based)
IndexOf(buffer, c, from) ==
  IF \E i \in from..Len(buffer) : buffer[i] = c
  THEN CHOOSE i \in from..Len(buffer) :
         buffer[i] = c /\ \A j \in from..(i - 1) : buffer[j] # c
  ELSE 0

\* a variant that counts braces inside strings as well
ScanCharNoString(st, buffer, i) ==
  IF st.endIndex # 0 THEN st
  ELSE IF buffer[i] = "{" THEN [st EXCEPT !.braceCount = st.braceCount + 1]
  ELSE IF buffer[i] = "}"
    THEN IF st.braceCount - 1 = 0
         THEN [st EXCEPT !.braceCount = 0, !.endIndex = i]
         ELSE [st EXCEPT !.braceCount = st.braceCount - 1]
  ELSE st

\* the body of the for loop that looks for the matching closing brace, applied
\* to buffer[i]; st holds braceCount, inString, escaped and endIndex, where
\* endIndex = 0 stands for -1 and a set endIndex for the break
ScanChar(st, buffer, i) ==
  IF st.endIndex # 0 THEN st
  ELSE IF st.escaped THEN [st EXCEPT !.escaped = FALSE]
  ELSE IF buffer[i] = BS THEN [st EXCEPT !.escaped = TRUE]
  ELSE IF buffer[i] = QT THEN [st EXCEPT !.inString = ~st.inString]
  ELSE IF ~st.inString /\ buffer[i] = "{" THEN [st EXCEPT !.braceCount = st.braceCount + 1]
  ELSE IF ~st.inString /\ buffer[i] = "}"
    THEN IF st.braceCount - 1 = 0
         THEN [st EXCEPT !.braceCount = 0, !.endIndex = i]
         ELSE [st EXCEPT !.braceCount = st.braceCount - 1]
  ELSE st

\* the loop over buffer[lo..hi], left to right (split in halves to keep the
\* evaluation shallow)
RECURSIVE ScanRange(_, _, _, _)
ScanRange(buffer, lo, hi, st) ==
  IF lo > hi \/ st.endIndex # 0 THEN st
  ELSE IF lo = hi THEN ScanChar(st, buffer, lo)
  ELSE LET mid == (lo + hi) \div 2 IN
         ScanRange(buffer, mid + 1, hi, ScanRange(buffer, lo, mid, st))

\* the index of the brace that closes the one at startIndex; 0 stands for -1
MatchBrace(buffer, startIndex) ==
  ScanRange(buffer, startIndex, Len(buffer),
            [braceCount |-> 0, inString |-> FALSE, escaped |-> FALSE, endIndex |-> 0]).endIndex

\* what one parsed object makes the generator yield: parts[0].text when truthy
ExtractText(data) ==
  LET candidates == GetProp(data, W_candidates)
      first == GetFirst(candidates)
      content == GetProp(first, W_content)
      parts == GetProp(content, W_parts)
      text == GetProp(GetFirst(parts), W_text)
  IN IF Truthy(candidates) /\ Truthy(first) /\ Truthy(content)
     THEN IF Truthy(parts) /\ Truthy(GetFirst(parts)) /\ Truthy(text)
          THEN <<text>> ELSE <<>>
     ELSE <<>>

\* the outcome of one iteration of `while (buffer.length > 0)`:
\* brk = the loop is left, out = what is yielded, buffer = the buffer after it
ScanBreak(buffer) == [brk |-> TRUE, out |-> <<>>, buffer |-> buffer]

\* a variant that forgets an incomplete object instead of keeping it
ExtractStepDropping(buffer) ==
  LET skipped == SkipSep(buffer, 1) IN
  IF buffer = <<>> \/ skipped > Len(buffer) THEN ScanBreak(buffer)
  ELSE LET startIndex == IF buffer[skipped] # "{" THEN IndexOf(buffer, "{", skipped)
                         ELSE skipped
       IN IF startIndex = 0 THEN ScanBreak(buffer)
          ELSE LET endIndex == MatchBrace(buffer, startIndex) IN
            IF endIndex = 0 THEN ScanBreak(<<>>)
            ELSE LET jsonStr == SubSeq(buffer, startIndex, endIndex)
                     data == JsonParse(jsonStr)
                 IN [brk |-> FALSE,
                     out |-> IF data.ok THEN ExtractText(data.v) ELSE <<>>,
                     buffer |-> Substring(buffer, endIndex + 1)]

\* a variant that gives up the whole buffer when a span does not parse
ExtractStepDiscardAll(buffer) ==
  LET skipped == SkipSep(buffer, 1) IN
  IF buffer = <<>> \/ skipped > Len(buffer) THEN ScanBreak(buffer)
  ELSE LET startIndex == IF buffer[skipped] # "{" THEN IndexOf(buffer, "{", skipped)
                         ELSE skipped
       IN IF startIndex = 0 THEN ScanBreak(buffer)
          ELSE LET endIndex == MatchBrace(buffer, startIndex) IN
            IF endIndex = 0 THEN ScanBreak(buffer)
            ELSE LET jsonStr == SubSeq(buffer, startIndex, endIndex)
                     data == JsonParse(jsonStr)
                 IN [brk |-> FALSE,
                     out |-> IF data.ok THEN ExtractText(data.v) ELSE <<>>,
                     buffer |-> IF data.ok THEN Substring(buffer, endIndex + 1) ELSE <<>>]

\* a variant that keeps a span that does not parse
ExtractStepKeeping(buffer) ==
  LET skipped == SkipSep(buffer, 1) IN
  IF buffer = <<>> \/ skipped > Len(buffer) THEN ScanBreak(buffer)
  ELSE LET startIndex == IF buffer[skipped] # "{" THEN IndexOf(buffer, "{", skipped)
                         ELSE skipped
       IN IF startIndex = 0 THEN ScanBreak(buffer)
          ELSE LET endIndex == MatchBrace(buffer, startIndex) IN
            IF endIndex = 0 THEN ScanBreak(buffer)
            ELSE LET jsonStr == SubSeq(buffer, startIndex, endIndex)
                     data == JsonParse(jsonStr)
                 IN [brk |-> FALSE,
                     out |-> IF data.ok THEN ExtractText(data.v) ELSE <<>>,
                     buffer |-> IF data.ok THEN Substring(buffer, endIndex + 1) ELSE buffer]

ExtractStep(buffer) ==
  LET skipped == SkipSep(buffer, 1) IN
  IF buffer = <<>> \/ skipped > Len(buffer) THEN ScanBreak(buffer)
  ELSE LET startIndex == IF buffer[skipped] # "{" THEN IndexOf(buffer, "{", skipped)
                         ELSE skipped
       IN IF startIndex = 0 THEN ScanBreak(buffer)
          ELSE LET endIndex == MatchBrace(buffer, startIndex) IN
            IF endIndex = 0 THEN ScanBreak(buffer)
            ELSE LET jsonStr == SubSeq(buffer, startIndex, endIndex)
                     data == JsonParse(jsonStr)
                 IN [brk |-> FALSE,
                     out |-> IF data.ok THEN ExtractText(data.v) ELSE <<>>,
                     buffer |-> Substring(buffer, endIndex + 1)]

\* ------------------------------------------------------------------------
\* Event Stream Emitter: SSEStream, the pure part (wire format)
\* ------------------------------------------------------------------------
\* SSEMessageType
START == <<"s", "t", "a", "r", "t">>

DATA == <<"d", "a", "t", "a">>

DONE == <<"d", "o", "n", "e">>

ERROR == <<"e", "r", "r", "o", "r">>

PING == <<"p", "i", "n", "g">>

P_id == <<"i", "d", ":", " ">>

P_event == <<"e", "v", "e", "n", "t", ":", " ">>

P_data == <<"d", "a", "t", "a", ":", " ">>

P_retry == <<"r", "e", "t", "r", "y", ":", " ">>

\* new Date().toISOString() and Date.now(), one token each
NowIso == <<"<iso-time>">>

NowMs == <<"<epoch-ms>">>

\* a value JSON.stringify throws on (a circular structure)
Cyclic == JVal("cyclic", <<>>, <<>>, <<>>)

\* the characters JSON.stringify writes for one character of a string
Escape(c) == CASE c = QT -> <<BS, QT>>
               [] c = BS -> <<BS, BS>>
               [] c = "\n" -> <<BS, "n">>
               [] c = "\t" -> <<BS, "t">>
               [] c = "\r" -> <<BS, "r">>
               [] c = "\f" -> <<BS, "f">>
               [] c = "<backspace>" -> <<BS, "b">>
               [] OTHER -> <<c>>

RECURSIVE EscapeAll(_)
EscapeAll(s) == IF s = <<>> THEN <<>> ELSE Escape(Head(s)) \o EscapeAll(Tail(s))

\* JSON.stringify of a value without cycles
RECURSIVE Stringify(_)
RECURSIVE StringifyMembers(_, _, _)
RECURSIVE StringifyElements(_, _)
StringifyMembers(k, e, j) ==
  IF j > Len(k) THEN <<>>
  ELSE (IF j > 1 THEN <<",">> ELSE <<>>)
         \o <<QT>> \o EscapeAll(k[j]) \o <<QT, ":">> \o Stringify(e[j])
         \o StringifyMembers(k, e, j + 1)

StringifyElements(e, j) ==
  IF j > Len(e) THEN <<>>
  ELSE (IF j > 1 THEN <<",">> ELSE <<>>) \o Stringify(e[j]) \o StringifyElements(e, j + 1)

Stringify(v) ==
  CASE v.t = "str" -> <<QT>> \o EscapeAll(v.s) \o <<QT>>
    [] v.t = "obj" -> <<"{">> \o StringifyMembers(v.k, v.e, 1) \o <<"}">>
    [] v.t = "arr" -> <<"[">> \o StringifyElements(v.e, 1) \o <<"]">>
    [] v.t = "true" -> <<"t", "r", "u", "e">>
    [] v.t = "false" -> <<"f", "a", "l", "s", "e">>
    [] OTHER -> <<"n", "u", "l", "l">>

\* dataString.split('\n')
RECURSIVE SplitLines(_)
SplitLines(s) ==
  LET i == IndexOf(s, NL, 1) IN
    IF i = 0 THEN <<s>> ELSE <<SubSeq(s, 1, i - 1)>> \o SplitLines(Substring(s, i + 1))

RECURSIVE DataLines(_)
DataLines(lines) ==
  IF lines = <<>> THEN <<>> ELSE P_data \o Head(lines) \o <<NL>> \o DataLines(Tail(lines))

\* a message: type, data (a value, Undefined when absent), id and retry (text,
\* empty when absent)
Msg(type, data, id, retry) == [type |-> type, data |-> data, id |-> id, retry |-> retry]

\* if (message.retry): undefined and 0 are falsy
RetryTruthy(retry) == retry # <<>> /\ retry # <<"0">>

\* typeof data === 'string' ? data : JSON.stringify(data)
Encoded(data) == IF data.t = "str" THEN data.s ELSE Stringify(data)

\* a variant that writes the payload behind a single data: prefix
SerializeUnsplit(message) ==
  IF message.data.t = "cyclic" THEN [ok |-> FALSE, sseData |-> <<>>]
  ELSE [ok |-> TRUE,
        sseData |->
          (IF message.id # <<>> THEN P_id \o message.id \o <<NL>> ELSE <<>>)
          \o P_event \o message.type \o <<NL>>
          \o (IF message.data.t # "undefined"
              THEN P_data \o Encoded(message.data) \o <<NL>>
              ELSE <<>>)
          \o (IF RetryTruthy(message.retry) THEN P_retry \o message.retry \o <<NL>> ELSE <<>>)
          \o <<NL>>]

\* the try block of sendMessage up to encode(): [ok |-> FALSE] when it throws
Serialize(message) ==
  IF message.data.t = "cyclic" THEN [ok |-> FALSE, sseData |-> <<>>]
  ELSE [ok |-> TRUE,
        sseData |->
          (IF message.id # <<>> THEN P_id \o message.id \o <<NL>> ELSE <<>>)
          \o P_event \o message.type \o <<NL>>
          \o (IF message.data.t # "undefined"
              THEN DataLines(SplitLines(Encoded(message.data)))
              ELSE <<>>)
          \o (IF RetryTruthy(message.retry) THEN P_retry \o message.retry \o <<NL>> ELSE <<>>)
          \o <<NL>>]

\* the text sendError writes
ErrorWire(errorMessage) ==
  P_event \o ERROR \o <<NL>>
  \o P_data \o Stringify(JObj(<<ERROR, <<"t", "i", "m", "e", "s", "t", "a", "m", "p">>>>,
                              <<JStr(errorMessage), JStr(NowIso)>>)) \o <<NL>>
  \o P_id \o NowMs \o <<NL, NL>>

\* what a client reads from a frame: the values of its lines with a given prefix
FrameLines(frame) == SplitLines(frame)

LinesWith(frame, prefix) ==
  LET ls == FrameLines(frame) IN
    [j \in 1..Cardinality({h \in 1..Len(ls) : IsPrefix(prefix, ls[h])}) |->
       LET idx == CHOOSE h \in 1..Len(ls) :
                    /\ IsPrefix(prefix, ls[h])
                    /\ Cardinality({g \in 1..h : IsPrefix(prefix, ls[g])}) = j
       IN Substring(ls[idx], Len(prefix) + 1)]

\* the event type of a frame
FrameEvent(frame) ==
  LET ev == LinesWith(frame, P_event) IN IF ev = <<>> THEN <<>> ELSE ev[1]

RECURSIVE JoinLines(_)
JoinLines(lines) ==
  IF lines = <<>> THEN <<>>
  ELSE IF Len(lines) = 1 THEN lines[1]
  ELSE lines[1] \o <<NL>> \o JoinLines(Tail(lines))

\* the payload of a frame: its data lines joined by newlines
FrameData(frame) == JoinLines(LinesWith(frame, P_data))

\* ------------------------------------------------------------------------
\* Inputs: what the upstream provider may answer
\* ------------------------------------------------------------------------
\* the largest number of items (objects, malformed spans, stray text) in a body
MaxItems == 2

Key(w) == <<QT>> \o w \o <<QT>>

\* {"candidates":[{"content":{"parts":[{"text":<lit>}]}}]}
CandidateJson(lit) ==
  <<"{">> \o Key(W_candidates) \o <<":", "[", "{">> \o Key(W_content) \o <<":", "{">>
    \o Key(W_parts) \o <<":", "[", "{">> \o Key(W_text) \o <<":">> \o lit
    \o <<"}", "]", "}", "}", "]", "}">>

\* {"candidates":[{"content":{"parts":[<parts>]}}]}
PartsJson(parts) ==
  <<"{">> \o Key(W_candidates) \o <<":", "[", "{">> \o Key(W_content) \o <<":", "{">>
    \o Key(W_parts) \o <<":", "[">> \o parts \o <<"]", "}", "}", "]", "}">>

\* {"text":<lit>}
PartJson(lit) == <<"{">> \o Key(W_text) \o <<":">> \o lit \o <<"}">>

W_finishReason == <<"f", "i", "n", "i", "s", "h", "R", "e", "a", "s", "o", "n">>

SAFETY == <<"S", "A", "F", "E", "T", "Y">>

STOP == <<"S", "T", "O", "P">>

\* {"candidates":[{"content":{"parts":[<parts>]},"finishReason":"<finish>"}]}
StdJson(parts, finish) ==
  <<"{">> \o Key(W_candidates) \o <<":", "[", "{">> \o Key(W_content) \o <<":", "{">>
    \o Key(W_parts) \o <<":", "[">> \o parts \o <<"]", "}", ",">>
    \o Key(W_finishReason) \o <<":">> \o Key(finish) \o <<"}", "]", "}">>

\* the items a body is made of
\*   ab    a well-formed object with text ab
\*   esc   a well-formed object whose text holds braces, a quote, a newline
\*         and a backslash, all escaped as JSON requires
\*   bad   a brace-balanced span that is not JSON
\*   none  a well-formed object without candidates
\*   open  an object that is never closed
\*   junk  stray text without braces (the array bracket of the real format)
\*   brace a well-formed object whose text is a{b}c
\*   unbal a well-formed object whose text is a}b
\*   two   a well-formed object with two parts, of texts a and b
\*   late  a well-formed object whose first part has no text and whose second has b
\*   empty a well-formed object whose only part has the empty text
\*   stop  a complete answer with the text hello and the finish reason STOP
\*   pad   a complete answer with two parts, " a" and "b ", and STOP
\*   safety   an answer whose candidate has the finish reason SAFETY and no content
\*   safetext an answer whose candidate has a text and the finish reason SAFETY
\*   bare  the content object with the text a{b}c, outside any candidates list
ItemIds == {"ab", "esc", "bad", "none", "open", "junk"}

ItemSrc(id) ==
  CASE id = "ab" -> CandidateJson(<<QT, "a", "b", QT>>)
    [] id = "esc" -> CandidateJson(<<QT, "a", "{", BS, QT, "}", BS, "n", BS, BS, QT>>)
    [] id = "bad" -> <<"{", BS, QT, "x", "}">>
    [] id = "none" -> <<"{">> \o Key(W_candidates) \o <<":", "[", "]", "}">>
    [] id = "open" -> <<"{">> \o Key(W_candidates) \o <<":", "[", "{", QT, "t", "}">>
    [] id = "junk" -> <<"]", QT>>
    [] id = "brace" -> CandidateJson(<<QT, "a", "{", "b", "}", "c", QT>>)
    [] id = "unbal" -> CandidateJson(<<QT, "a", "}", "b", QT>>)
    [] id = "two" -> PartsJson(PartJson(<<QT, "a", QT>>) \o <<",">> \o PartJson(<<QT, "b", QT>>))
    [] id = "late" -> PartsJson(<<"{", "}", ",">> \o PartJson(<<QT, "b", QT>>))
    [] id = "empty" -> PartsJson(PartJson(<<QT, QT>>))
    [] id = "stop" -> StdJson(PartJson(<<QT, "h", "e", "l", "l", "o", QT>>), STOP)
    [] id = "pad" -> StdJson(PartJson(<<QT, " ", "a", QT>>) \o <<",">>
                               \o PartJson(<<QT, "b", " ", QT>>), STOP)
    [] id = "safety" -> <<"{">> \o Key(W_candidates) \o <<":", "[", "{">>
                          \o Key(W_finishReason) \o <<":">> \o Key(SAFETY) \o <<"}", "]", "}">>
    [] id = "safetext" -> StdJson(PartJson(<<QT, "a", QT>>), SAFETY)
    [] id = "bare" -> <<"{">> \o Key(W_content) \o <<":", "{">> \o Key(W_parts)
                        \o <<":", "[", "{">> \o Key(W_text)
                        \o <<":", QT, "a", "{", "b", "}", "c", QT, "}", "]", "}", "}">>

\* the fragments an item is expected to give
ItemOut(id) ==
  CASE id = "ab" -> <<JStr(<<"a", "b">>)>>
    [] id = "esc" -> <<JStr(<<"a", "{", QT, "}", NL, BS>>)>>
    [] id = "brace" -> <<JStr(<<"a", "{", "b", "}", "c">>)>>
    [] id = "unbal" -> <<JStr(<<"a", "}", "b">>)>>
    [] id = "two" -> <<JStr(<<"a">>)>>
    [] id = "stop" -> <<JStr(<<"h", "e", "l", "l", "o">>)>>
    [] id = "pad" -> <<JStr(<<" ", "a">>)>>
    [] id = "safetext" -> <<JStr(<<"a">>)>>
    [] OTHER -> <<>>

ItemSep == <<"\n", ",", "\n">>

RECURSIVE Render(_)
Render(items) ==
  IF items = <<>> THEN <<>>
  ELSE IF Len(items) = 1 THEN ItemSrc(items[1])
  ELSE ItemSrc(items[1]) \o ItemSep \o Render(Tail(items))

RECURSIVE ExpectedOut(_)
ExpectedOut(items) ==
  IF items = <<>> THEN <<>> ELSE ItemOut(Head(items)) \o ExpectedOut(Tail(items))

ItemSeqs == UNION {[1..n -> ItemIds] : n \in 0..MaxItems}

\* an unterminated object may only end a body whose objects are all to be found
Recoverable(items) == \A j \in 1..Len(items) : items[j] = "open" => j = Len(items)

StatusOk == <<"2", "0", "0">>

Status500 == <<"5", "0", "0">>

ErrorBody == <<"q", "u", "o", "t", "a">>

Upstreams ==
  {[ok |-> TRUE, status |-> StatusOk, errorText |-> <<>>, hasBody |-> TRUE, items |-> it] :
     it \in ItemSeqs}
  \cup {[ok |-> FALSE, status |-> Status500, errorText |-> ErrorBody, hasBody |-> TRUE,
         items |-> <<>>],
        [ok |-> TRUE, status |-> StatusOk, errorText |-> <<>>, hasBody |-> FALSE,
         items |-> <<>>]}

\* ------------------------------------------------------------------------
\* State
\* ------------------------------------------------------------------------
VARIABLES
  upstream,   \* the provider's answer to the streaming call
  pos,        \* how many characters of the body reader.read() has delivered
  buffer,     \* generateStreamingResponse: let buffer
  gpc,        \* where the generator stands: idle, start, read, scan, yield, done, failed
  cur,        \* the value the generator has yielded and the consumer has not taken yet
  gerr,       \* the message of the Error the generator threw
  yielded,    \* the fragments the consumer has taken so far
  hardCut     \* some chunk ended directly after a backslash inside a string

VARIABLES
  controller, \* SSEStream.controller: "null" or "ctrl"
  isClosed,   \* SSEStream.isClosed
  sink,       \* the ReadableStream behind the controller: none, readable, closed
  frames,     \* the texts enqueued into the stream, in order
  timers,     \* pending setTimeout(() => this.close(), 100) callbacks
  clientGone, \* the transport has run the cancel callback
  closeCalled,\* close() has been called on the emitter
  lastOp      \* the emitter call of the last step: its name, whether an exception
              \* was thrown and caught inside it, whether one left it

VARIABLES
  apiKey,            \* whether GEMINI_API_KEY is set
  request,           \* the chat request: message and conversation_id
  rpc,               \* where the streaming request stands: idle, loop, finished
  fullResponse,      \* processStreamingResponse: let fullResponse
  rerr,              \* the message of the error processStreamingResponse caught
  conversationStore  \* ChatService.conversationStore, as a sequence of turns

VARIABLES
  body,       \* the text of the request body
  cpc,        \* where handleChatRequest stands: none, recv, await, returned
  calls,      \* how many upstream HTTP calls (fetch) have been made
  response,   \* the Response handleChatRequest has returned
  inflight,   \* the requests the one ChatService handles side by side
  logger      \* the Logger singleton: requestContexts and what it has printed

genVars == <<upstream, pos, buffer, gpc, cur, gerr, yielded, hardCut>>

emVars == <<controller, isClosed, sink, frames, timers, clientGone, closeCalled, lastOp>>

relayVars == <<apiKey, request, rpc, fullResponse, rerr, conversationStore>>

chatVars == <<body, cpc, calls, response, inflight, logger>>

vars == <<genVars, emVars, relayVars, chatVars>>

Text == Render(upstream.items)

\* ------------------------------------------------------------------------
\* Event Stream Emitter: SSEStream, its state and operations
\* An operation maps an emitter record to the emitter record after the call:
\*   threw   an exception was thrown inside the call (and possibly caught)
\*   raised  an exception left the call
\* ------------------------------------------------------------------------
Em == [controller |-> controller, isClosed |-> isClosed, sink |-> sink,
       frames |-> frames, timers |-> timers, threw |-> FALSE, raised |-> FALSE]

\* the emitter after construction: no controller, not closed, no stream yet
EmInit ==
  /\ controller = "null"
  /\ isClosed = FALSE
  /\ sink = "none"
  /\ frames = <<>>
  /\ timers = 0
  /\ clientGone = FALSE
  /\ closeCalled = FALSE
  /\ lastOp = [op |-> "new", threw |-> FALSE, raised |-> FALSE]

\* the variables take the values of e after the call op
SetEm(e, op) ==
  /\ controller' = e.controller
  /\ isClosed' = e.isClosed
  /\ sink' = e.sink
  /\ frames' = e.frames
  /\ timers' = e.timers
  /\ closeCalled' = (closeCalled \/ op = "close")
  /\ lastOp' = [op |-> op, threw |-> e.threw, raised |-> e.raised]

\* controller.desiredSize: null only for an errored stream
DesiredSize(s) == IF s = "errored" THEN "null" ELSE "number"

\* controller.close(): throws unless the stream is readable
CtrlClose(s) == [sink |-> IF s = "readable" THEN "closed" ELSE s, threw |-> s # "readable"]

\* controller.enqueue(): throws unless the stream is readable; fault stands for
\* a write the transport rejects
CtrlEnqueueOk(s, fault) == s = "readable" /\ ~fault

\* a variant whose start callback reopens the emitter
CreateStreamReopening(e) ==
  [e EXCEPT !.controller = "ctrl", !.sink = "readable", !.isClosed = FALSE]

\* createStream(): the ReadableStream constructor runs start(controller) at once
CreateStream(e) == [e EXCEPT !.controller = "ctrl", !.sink = "readable"]

\* a variant that marks the emitter closed and forgets the controller without
\* closing it
CloseLeavingStream(e) ==
  IF e.isClosed THEN e ELSE [e EXCEPT !.isClosed = TRUE, !.controller = "null"]

\* close(): the catch swallows what controller.close() throws, the finally
\* clears the controller
Close(e) ==
  IF e.isClosed THEN e
  ELSE LET c == IF e.controller # "null" /\ DesiredSize(e.sink) # "null"
                THEN CtrlClose(e.sink) ELSE [sink |-> e.sink, threw |-> FALSE]
       IN [e EXCEPT !.isClosed = TRUE, !.sink = c.sink, !.controller = "null",
                    !.threw = e.threw \/ c.threw]

\* a variant of the catch block that keeps the controller
SendFailedKeeping(e) ==
  [e EXCEPT !.isClosed = TRUE, !.sink = CtrlClose(e.sink).sink, !.threw = TRUE]

\* the catch block of sendMessage and of sendError
SendFailed(e) ==
  [e EXCEPT !.isClosed = TRUE, !.sink = CtrlClose(e.sink).sink, !.controller = "null",
            !.threw = TRUE]

\* a variant that only looks at the controller, not at isClosed
SendMessageUnguarded(e, message, fault) ==
  IF e.controller = "null" THEN e
  ELSE LET ser == Serialize(message) IN
    IF ser.ok /\ CtrlEnqueueOk(e.sink, fault)
    THEN [e EXCEPT !.frames = Append(e.frames, ser.sseData)]
    ELSE SendFailed(e)

\* sendMessage(message)
SendMessage(e, message, fault) ==
  IF e.isClosed \/ e.controller = "null" THEN e
  ELSE LET ser == Serialize(message) IN
    IF ser.ok /\ CtrlEnqueueOk(e.sink, fault)
    THEN [e EXCEPT !.frames = Append(e.frames, ser.sseData)]
    ELSE SendFailed(e)

W_timestamp == <<"t", "i", "m", "e", "s", "t", "a", "m", "p">>

W_message == <<"m", "e", "s", "s", "a", "g", "e">>

\* sendData(text, messageId)
SendData(e, text, messageId, fault) ==
  SendMessage(e, Msg(DATA, JObj(<<W_content, W_timestamp>>, <<JStr(text), JStr(NowIso)>>),
                     messageId, <<>>), fault)

\* a variant of sendError that closes the channel after the error frame
SendErrorClosing(e, errorMessage, fault) ==
  IF e.isClosed \/ e.controller = "null" THEN e
  ELSE IF CtrlEnqueueOk(e.sink, fault)
    THEN Close([e EXCEPT !.frames = Append(e.frames, ErrorWire(errorMessage))])
    ELSE SendFailed(e)

\* sendError(error)
SendError(e, errorMessage, fault) ==
  IF e.isClosed \/ e.controller = "null" THEN e
  ELSE IF CtrlEnqueueOk(e.sink, fault)
    THEN [e EXCEPT !.frames = Append(e.frames, ErrorWire(errorMessage))]
    ELSE SendFailed(e)

DefaultDone == JObj(<<W_message>>, <<JStr(<<"<response complete>">>)>>)

\* a variant of sendDone that closes at once instead of setting the timer
SendDoneClosing(e, finalData, fault) ==
  Close(SendMessage(e, Msg(DONE, IF Truthy(finalData) THEN finalData ELSE DefaultDone,
                           NowMs, <<>>), fault))

\* a variant of sendDone that sends the done message and sets no timer
SendDoneForgetting(e, finalData, fault) ==
  SendMessage(e, Msg(DONE, IF Truthy(finalData) THEN finalData ELSE DefaultDone,
                     NowMs, <<>>), fault)

\* sendDone(finalData): the done message, then the timer that will close
SendDone(e, finalData, fault) ==
  LET sent == SendMessage(e, Msg(DONE, IF Truthy(finalData) THEN finalData ELSE DefaultDone,
                                 NowMs, <<>>), fault)
  IN [sent EXCEPT !.timers = sent.timers + 1]

\* sendPing()
SendPing(e, fault) ==
  SendMessage(e, Msg(PING, JObj(<<W_timestamp>>, <<JStr(NowIso)>>), NowMs, <<>>), fault)

\* a variant of the cancel callback that only logs
CancelCallbackIdle(e) == [e EXCEPT !.sink = "closed"]

\* the transport cancels the stream: the stream is closed, then cancel() runs
CancelCallback(e) == Close([e EXCEPT !.sink = "closed"])

IsOpen(e) == ~e.isClosed /\ e.controller # "null"


\* ------------------------------------------------------------------------
\* Error messages (fixed message texts are single tokens)
\* ------------------------------------------------------------------------
NoError == <<>>

\* a variant whose message leaves the status out
InnerHttpErrorNoStatus(status, errorText) == <<"Gemini API error: ">> \o errorText

InnerHttpError(status, errorText) == <<"Gemini API error (">> \o status \o <<"): ">> \o errorText

InnerNoBody == <<"response body is empty">>

InnerReadError == <<"read failed">>

\* catch (error) { throw new Error(`AI streaming service unavailable: ${error.message}`) }
WrapStreamError(inner) == <<"AI streaming service unavailable: ">> \o inner

\* ------------------------------------------------------------------------
\* The generator, one action per stretch between two suspension points
\* ------------------------------------------------------------------------
\* first advance: the fetch and the checks of the response
GenStart ==
  /\ gpc = "start"
  /\ IF ~upstream.ok
     THEN /\ gpc' = "failed"
          /\ gerr' = WrapStreamError(InnerHttpError(upstream.status, upstream.errorText))
     ELSE IF ~upstream.hasBody
     THEN /\ gpc' = "failed"
          /\ gerr' = WrapStreamError(InnerNoBody)
     ELSE /\ gpc' = "read"
          /\ gerr' = gerr
  /\ buffer' = <<>>
  /\ calls' = calls + 1
  /\ UNCHANGED <<logger, inflight, body, cpc, response, upstream, pos, cur, yielded, hardCut, emVars, relayVars>>

\* reader.read() delivers the next n characters; the buffer grows and is stripped
GenRead ==
  /\ gpc = "read"
  /\ LET text == Text IN
       \E n \in 0..(Len(text) - pos) :
         /\ pos' = pos + n
         /\ buffer' = StripLeading(buffer \o SubSeq(text, pos + 1, pos + n))
         /\ hardCut' = (hardCut \/ (n > 0 /\ pos + n < Len(text) /\ text[pos + n] = BS))
  /\ gpc' = "scan"
  /\ UNCHANGED <<chatVars, upstream, cur, gerr, yielded, emVars, relayVars>>

\* the buffer holds an object whose closing brace has not arrived
Unterminated(buf) ==
  LET startIndex == IndexOf(buf, "{", 1) IN startIndex # 0 /\ MatchBrace(buf, startIndex) = 0

\* a variant that treats an object left open at the end of the body as an error
GenReadDoneStrict ==
  /\ gpc = "read"
  /\ pos = Len(Text)
  /\ IF Unterminated(buffer)
     THEN gpc' = "failed" /\ gerr' = WrapStreamError(<<"incomplete object">>)
     ELSE gpc' = "done" /\ gerr' = gerr
  /\ UNCHANGED <<chatVars, upstream, pos, buffer, cur, yielded, hardCut, emVars, relayVars>>

\* a variant that fails a stream that ends without having given a fragment
GenReadDoneEmptyFails ==
  /\ gpc = "read"
  /\ pos = Len(Text)
  /\ IF yielded = <<>>
     THEN gpc' = "failed" /\ gerr' = WrapStreamError(<<"no valid reply">>)
     ELSE gpc' = "done" /\ gerr' = gerr
  /\ UNCHANGED <<chatVars, upstream, pos, buffer, cur, yielded, hardCut, emVars, relayVars>>

\* reader.read() reports the end of the body
GenReadDone ==
  /\ gpc = "read"
  /\ pos = Len(Text)
  /\ gpc' = "done"
  /\ UNCHANGED <<chatVars, upstream, pos, buffer, cur, gerr, yielded, hardCut, emVars, relayVars>>

\* reader.read() rejects
GenReadError ==
  /\ gpc = "read"
  /\ gpc' = "failed"
  /\ gerr' = WrapStreamError(InnerReadError)
  /\ UNCHANGED <<chatVars, upstream, pos, buffer, cur, yielded, hardCut, emVars, relayVars>>

\* a variant that goes back to reading after a span that gave no fragment
GenScanOnce ==
  /\ gpc = "scan"
  /\ LET step == ExtractStep(buffer) IN
       /\ buffer' = step.buffer
       /\ IF step.brk \/ step.out = <<>> THEN gpc' = "read" /\ cur' = cur
          ELSE gpc' = "yield" /\ cur' = step.out[1]
  /\ UNCHANGED <<chatVars, upstream, pos, gerr, yielded, hardCut, emVars, relayVars>>

\* one iteration of the extraction loop
GenScan ==
  /\ gpc = "scan"
  /\ LET step == ExtractStep(buffer) IN
       /\ buffer' = step.buffer
       /\ IF step.brk THEN gpc' = "read" /\ cur' = cur
          ELSE IF step.out # <<>> THEN gpc' = "yield" /\ cur' = step.out[1]
          ELSE gpc' = "scan" /\ cur' = cur
  /\ UNCHANGED <<chatVars, upstream, pos, gerr, yielded, hardCut, emVars, relayVars>>

\* a consumer that only collects what is yielded
Collect ==
  /\ gpc = "yield"
  /\ yielded' = Append(yielded, cur)
  /\ gpc' = "scan"
  /\ UNCHANGED <<chatVars, upstream, pos, buffer, cur, gerr, hardCut, emVars, relayVars>>

GenInit ==
  /\ upstream \in Upstreams
  /\ pos = 0
  /\ buffer = <<>>
  /\ gpc = "start"
  /\ cur = Undefined
  /\ gerr = NoError
  /\ yielded = <<>>
  /\ hardCut = FALSE

\* no Response yet
NoResponse == [status |-> <<>>, type |-> "none", body |-> Undefined]

\* new Response(JSON.stringify(value), {status, headers: application/json})
JsonResponse(status, value) == [status |-> status, type |-> "json", body |-> value]

\* createSSEResponse(stream): text/event-stream with the default status
SseResponse == [status |-> StatusOk, type |-> "sse", body |-> Undefined]

\* no request has been received by handleChatRequest
ChatIdle ==
  /\ body = <<>>
  /\ cpc = "none"
  /\ calls = 0
  /\ response = NoResponse
  /\ inflight = <<>>
  /\ logger = <<>>

\* the streaming request before it is handled
RelayIdle ==
  /\ apiKey = TRUE
  /\ request = [message |-> <<"h", "i">>, conversation_id |-> <<>>]
  /\ rpc = "idle"
  /\ fullResponse = <<>>
  /\ rerr = NoError
  /\ conversationStore = <<>>

ReasmInit == GenInit /\ EmInit /\ RelayIdle /\ ChatIdle

ReasmNext == GenStart \/ GenRead \/ GenReadDone \/ GenReadError \/ GenScan \/ Collect

SpecReasm == ReasmInit /\ [][ReasmNext]_vars

\* the fragments of a body that arrives as one chunk
RECURSIVE ScanAll(_, _)
ScanAll(buf, acc) ==
  LET step == ExtractStep(buf) IN
    IF step.brk THEN acc ELSE ScanAll(step.buffer, acc \o step.out)

WholeYield(text) == ScanAll(StripLeading(text), <<>>)

\* C1: however the body is split into chunks, the fragments collected when the
\* stream has ended are those of the same body delivered as a single chunk
C1_ChunkingInvariance == gpc = "done" => yielded = WholeYield(Text)

\* a stream that ended after a chunk boundary directly behind a backslash
\* (inside a string, inside a brace pair) and gave fragments
C1_Witness == gpc = "done" /\ hardCut /\ Len(yielded) = 2

\* part occurs in msg as a contiguous run
Contains(msg, part) ==
  \E i \in 0..(Len(msg) - Len(part)) : SubSeq(msg, i + 1, i + Len(part)) = part

NothingYielded == yielded = <<>> /\ cur = Undefined /\ pos = 0

\* C9 as stated: a non-success status or a missing body makes the generator fail
\* on its first advance, before any fragment, with an error that carries the
\* status and the response body text
C9_Original ==
  (~upstream.ok \/ ~upstream.hasBody) =>
     /\ gpc \in {"start", "failed"}
     /\ gpc = "failed" => /\ Contains(gerr, upstream.status)
                          /\ Contains(gerr, upstream.errorText)
                          /\ NothingYielded

\* C9 as amended: both failures happen on the first advance, before any fragment;
\* the error of a non-success status carries the status and the body text, the
\* error of a missing body carries the fixed text that the body is empty
C9_FailFast ==
  (~upstream.ok \/ ~upstream.hasBody) =>
     /\ gpc \in {"start", "failed"}
     /\ gpc = "failed" =>
          /\ NothingYielded
          /\ IF ~upstream.ok
             THEN /\ Contains(gerr, upstream.status)
                  /\ Contains(gerr, upstream.errorText)
             ELSE gerr = WrapStreamError(InnerNoBody)

\* the generator has failed on a non-success status
C9_Witness == gpc = "failed" /\ ~upstream.ok /\ upstream.errorText # <<>>

\* C10: a brace-balanced span that does not parse gives no fragment and raises
\* nothing: once the whole body has been read and scanned, the fragments are
\* exactly those of the well-formed objects, in order, and the only failure of
\* a stream with a body is a failed read
C10_MalformedSkipped ==
  /\ (Recoverable(upstream.items) /\ pos = Len(Text) /\ gpc \in {"read", "done"})
        => yielded = ExpectedOut(upstream.items)
  /\ (gpc = "failed" /\ upstream.ok /\ upstream.hasBody)
        => gerr = WrapStreamError(InnerReadError)

\* a stream that ended after a malformed span followed by a well-formed object
C10_Witness ==
  /\ gpc = "done"
  /\ Len(upstream.items) = 2
  /\ upstream.items[1] = "bad"
  /\ upstream.items[2] = "esc"
  /\ yielded = ItemOut("esc")

\* ------------------------------------------------------------------------
\* The emitter under every order of its operations
\* ------------------------------------------------------------------------
\* the largest number of frames a channel is made to carry
MaxFrames == 2

\* the largest number of pending close timers
MaxTimers == 2

Messages ==
  {Msg(START, JStr(<<"h", "i">>), <<>>, <<>>),
   Msg(DATA, JStr(<<"a", NL, "b">>), <<"7">>, <<"3", "0", "0", "0">>),
   Msg(DATA, JObj(<<<<"k">>>>, <<JStr(<<"a", NL, QT>>)>>), <<>>, <<"0">>),
   Msg(DONE, Undefined, <<>>, <<>>),
   Msg(ERROR, Cyclic, <<>>, <<>>),
   Msg(PING, JStr(<<>>), <<"7">>, <<>>)}

\* a send is tried while the channel has room, or when it cannot write anyway
MaySend == Len(frames) < MaxFrames \/ ~IsOpen(Em)

EmCreateStream ==
  /\ sink = "none"
  /\ SetEm(CreateStream(Em), "createStream")
  /\ UNCHANGED <<chatVars, clientGone, genVars, relayVars>>

EmSendMessage ==
  /\ MaySend
  /\ \E message \in Messages, fault \in BOOLEAN :
       SetEm(SendMessage(Em, message, fault), "sendMessage")
  /\ UNCHANGED <<chatVars, clientGone, genVars, relayVars>>

EmSendData ==
  /\ MaySend
  /\ \E messageId \in {<<>>, <<"7">>}, fault \in BOOLEAN :
       SetEm(SendData(Em, <<"a">>, messageId, fault), "sendData")
  /\ UNCHANGED <<chatVars, clientGone, genVars, relayVars>>

EmSendError ==
  /\ MaySend
  /\ \E fault \in BOOLEAN : SetEm(SendError(Em, <<"b", "o", "o", "m">>, fault), "sendError")
  /\ UNCHANGED <<chatVars, clientGone, genVars, relayVars>>

EmSendDone ==
  /\ MaySend
  /\ timers < MaxTimers
  /\ \E finalData \in {Undefined, JObj(<<<<"n">>>>, <<JLit("true")>>)}, fault \in BOOLEAN :
       SetEm(SendDone(Em, finalData, fault), "sendDone")
  /\ UNCHANGED <<chatVars, clientGone, genVars, relayVars>>

EmSendPing ==
  /\ MaySend
  /\ \E fault \in BOOLEAN : SetEm(SendPing(Em, fault), "sendPing")
  /\ UNCHANGED <<chatVars, clientGone, genVars, relayVars>>

EmClose ==
  /\ SetEm(Close(Em), "close")
  /\ UNCHANGED <<chatVars, clientGone, genVars, relayVars>>

\* the client disconnects: the transport runs the cancel callback, once
EmCancel ==
  /\ sink # "none"
  /\ ~clientGone
  /\ clientGone' = TRUE
  /\ SetEm(CancelCallback(Em), "cancel")
  /\ UNCHANGED <<chatVars, genVars, relayVars>>

\* a close timer set by sendDone fires
EmTimer ==
  /\ timers > 0
  /\ SetEm([Close(Em) EXCEPT !.timers = timers - 1], "timer")
  /\ UNCHANGED <<chatVars, clientGone, genVars, relayVars>>

GenIdle ==
  /\ upstream = [ok |-> TRUE, status |-> StatusOk, errorText |-> <<>>, hasBody |-> TRUE,
                 items |-> <<>>]
  /\ pos = 0
  /\ buffer = <<>>
  /\ gpc = "idle"
  /\ cur = Undefined
  /\ gerr = NoError
  /\ yielded = <<>>
  /\ hardCut = FALSE

EmitterInit == GenIdle /\ EmInit /\ RelayIdle /\ ChatIdle

EmitterNext ==
  \/ EmCreateStream
  \/ EmSendMessage
  \/ EmSendData
  \/ EmSendError
  \/ EmSendDone
  \/ EmSendPing
  \/ EmClose
  \/ EmCancel
  \/ EmTimer

SpecEmitter == EmitterInit /\ [][EmitterNext]_vars

SendOps == {"sendMessage", "sendData", "sendError", "sendDone", "sendPing"}

\* C4: once close() has been called, every further call returns without an
\* exception, writes no frame and leaves the emitter closed
C4_NoOpAfterClose ==
  [][closeCalled => (frames' = frames /\ isClosed' /\ ~lastOp'.raised)]_vars

\* close() was called, the stream was created afterwards, and a send on the
\* closed emitter with its live controller wrote nothing
C4_Witness ==
  closeCalled /\ controller = "ctrl" /\ lastOp.op \in SendOps /\ frames = <<>>

Last(q) == q[Len(q)]

\* C5 as stated: every call of sendDone, in whatever state the emitter is,
\* writes exactly one done frame before the channel becomes closed, and no frame
\* is written once it is closed
C5_Original ==
  [][/\ EmSendDone => /\ Len(frames') = Len(frames) + 1
                        /\ SubSeq(frames', 1, Len(frames)) = frames
                        /\ FrameEvent(Last(frames')) = DONE
                        /\ ~isClosed
     /\ isClosed => frames' = frames]_vars

\* C5 as amended: a call of sendDone on an open emitter whose write succeeds
\* writes exactly one done frame and returns with the emitter still open; on an
\* idle or closed emitter, or when the write fails, it writes nothing; no frame
\* is written once the emitter is closed
C5_DoneWhenOpen ==
  [][/\ EmSendDone =>
          IF IsOpen(Em) /\ ~lastOp'.threw
          THEN /\ Len(frames') = Len(frames) + 1
               /\ SubSeq(frames', 1, Len(frames)) = frames
               /\ FrameEvent(Last(frames')) = DONE
               /\ ~isClosed'
          ELSE frames' = frames
     /\ isClosed => frames' = frames]_vars

\* sendDone has just written its done frame and the close timer is pending
C5_Witness ==
  /\ lastOp.op = "sendDone"
  /\ ~isClosed
  /\ timers > 0
  /\ frames # <<>>
  /\ FrameEvent(Last(frames)) = DONE

\* C6: once isClosed is true it stays true
C6_ClosedMonotonic == [][isClosed => isClosed']_vars

\* the stream was created on an emitter that was closed before: still closed
C6_Witness == isClosed /\ lastOp.op = "createStream"

\* C8: a sendMessage call inside which serializing or writing threw returns
\* normally and leaves the emitter closed with no controller
C8_SendFailureCloses ==
  (lastOp.op = "sendMessage" /\ lastOp.threw) =>
     (~lastOp.raised /\ isClosed /\ controller = "null")

\* a sendMessage call has failed on an emitter that had written a frame before
C8_Witness ==
  lastOp.op = "sendMessage" /\ lastOp.threw /\ Len(frames) = 1 /\ sink = "closed"

\* ------------------------------------------------------------------------
\* The streaming request: ChatService.handleStreamingChat and
\* processStreamingResponse, driving the generator and the emitter
\* ------------------------------------------------------------------------
\* fixed message texts, one token each
T_start == <<"<generating the reply...>">>

T_done == <<"<reply complete>">>

T_failed == <<"<generating the reply failed: >">>

T_missingKey == <<"<missing environment variable: GEMINI_API_KEY>">>

T_generatedId == <<"<conv_generated>">>

Requests == {[message |-> <<"h", "i">>, conversation_id |-> c] : c \in {<<>>, <<"c", "1">>}}

\* the streaming requests: the relay uses the conversation id only as a key
RelayRequests == {r \in Requests : r.conversation_id = <<>>}

\* String(v), as `fullResponse += chunk` applies it
JsToString(v) ==
  CASE v.t = "str" -> v.s
    [] v.t = "true" -> <<"t", "r", "u", "e">>
    [] v.t = "obj" -> <<"[object Object]">>
    [] OTHER -> <<"<", v.t, ">">>

\* a variant of saveChatHistory that starts the conversation's list anew
SaveChatHistoryReplacing(store, conversationId, userMessage, aiResponse) ==
  Append(SelectSeq(store, LAMBDA t : t.conversationId # conversationId),
         [conversationId |-> conversationId, userMessage |-> userMessage,
          aiResponse |-> aiResponse])

\* saveChatHistory: the turn is pushed onto the conversation's list
SaveChatHistory(store, conversationId, userMessage, aiResponse) ==
  Append(store, [conversationId |-> conversationId, userMessage |-> userMessage,
                 aiResponse |-> aiResponse])

\* chatRequest.conversation_id || this.generateConversationId()
ConversationId(req) ==
  IF req.conversation_id # <<>> THEN req.conversation_id ELSE T_generatedId

T_sendFailed == <<"<send failed>">>

\* a variant that closes without sending the error message
CatchAndCloseSilent(e, message) == Close(e)

\* the catch and finally blocks of processStreamingResponse
CatchAndClose(e, message) ==
  Close(SendMessage(e, Msg(ERROR, JStr(T_failed \o message), <<>>, <<>>), FALSE))

\* a variant of handleStreamingChat that never calls createStream()
HandleStreamingChatDetached ==
  /\ rpc = "idle"
  /\ LET started == SendMessage(Em, Msg(START, JStr(T_start), <<>>, <<>>), FALSE) IN
       IF apiKey
       THEN /\ SetEm(started, "createStream")
            /\ gpc' = "start"
            /\ rpc' = "loop"
            /\ rerr' = rerr
       ELSE /\ SetEm(Close(SendMessage(started,
                                   Msg(ERROR, JStr(T_failed \o T_missingKey), <<>>, <<>>),
                                   FALSE)), "close")
            /\ gpc' = gpc
            /\ rpc' = "finished"
            /\ rerr' = T_missingKey
  /\ response' = SseResponse
  /\ UNCHANGED <<logger, inflight, body, cpc, calls, upstream, pos, buffer, cur, gerr, yielded, hardCut, clientGone,
                 apiKey, request, fullResponse, conversationStore>>

\* handleStreamingChat, with the part of processStreamingResponse that runs
\* before its first await: the start message, createGeminiClient(), then
\* createStream(); when createGeminiClient() throws, the catch block sends
\* before the stream exists and the finally block closes after it exists
HandleStreamingChat ==
  /\ rpc = "idle"
  /\ LET started == SendMessage(Em, Msg(START, JStr(T_start), <<>>, <<>>), FALSE) IN
       IF apiKey
       THEN /\ SetEm(CreateStream(started), "createStream")
            /\ gpc' = "start"
            /\ rpc' = "loop"
            /\ rerr' = rerr
       ELSE /\ SetEm(Close(CreateStream(
                       SendMessage(started,
                                   Msg(ERROR, JStr(T_failed \o T_missingKey), <<>>, <<>>),
                                   FALSE))), "close")
            /\ gpc' = gpc
            /\ rpc' = "finished"
            /\ rerr' = T_missingKey
  /\ response' = SseResponse
  /\ UNCHANGED <<logger, inflight, body, cpc, calls, upstream, pos, buffer, cur, gerr, yielded, hardCut, clientGone,
                 apiKey, request, fullResponse, conversationStore>>

\* a variant of the loop body that adds a fragment to fullResponse only while
\* the emitter is open
RelayDataSkipping ==
  /\ rpc = "loop"
  /\ gpc = "yield"
  /\ fullResponse' = IF IsOpen(Em) THEN fullResponse \o JsToString(cur) ELSE fullResponse
  /\ yielded' = Append(yielded, cur)
  /\ LET sent == SendMessage(Em, Msg(DATA, cur, <<>>, <<>>), FALSE) IN
       IF sent.raised
       THEN /\ SetEm(CatchAndClose(sent, T_sendFailed), "close")
            /\ rerr' = T_sendFailed
            /\ rpc' = "finished"
            /\ gpc' = "done"
       ELSE /\ SetEm(sent, "sendMessage")
            /\ rerr' = rerr
            /\ rpc' = rpc
            /\ gpc' = "scan"
  /\ UNCHANGED <<chatVars, upstream, pos, buffer, cur, gerr, hardCut, clientGone,
                 apiKey, request, conversationStore>>

\* the body of the for-await loop for one yielded fragment
RelayData ==
  /\ rpc = "loop"
  /\ gpc = "yield"
  /\ fullResponse' = fullResponse \o JsToString(cur)
  /\ yielded' = Append(yielded, cur)
  /\ LET sent == SendMessage(Em, Msg(DATA, cur, <<>>, <<>>), FALSE) IN
       IF sent.raised
       THEN /\ SetEm(CatchAndClose(sent, T_sendFailed), "close")
            /\ rerr' = T_sendFailed
            /\ rpc' = "finished"
            /\ gpc' = "done"
       ELSE /\ SetEm(sent, "sendMessage")
            /\ rerr' = rerr
            /\ rpc' = rpc
            /\ gpc' = "scan"
  /\ UNCHANGED <<chatVars, upstream, pos, buffer, cur, gerr, hardCut, clientGone,
                 apiKey, request, conversationStore>>

\* a variant that sends the done message and leaves the stream open
RelayFinishOpen ==
  /\ rpc = "loop"
  /\ gpc = "done"
  /\ conversationStore' = SaveChatHistory(conversationStore, ConversationId(request),
                                          request.message, fullResponse)
  /\ SetEm(SendMessage(Em, Msg(DONE, JStr(T_done), <<>>, <<>>), FALSE), "sendMessage")
  /\ rpc' = "finished"
  /\ UNCHANGED <<chatVars, genVars, clientGone, apiKey, request, fullResponse, rerr>>

\* the generator is done: the turn is saved, the done message sent, the stream closed
RelayFinish ==
  /\ rpc = "loop"
  /\ gpc = "done"
  /\ conversationStore' = SaveChatHistory(conversationStore, ConversationId(request),
                                          request.message, fullResponse)
  /\ SetEm(Close(SendMessage(Em, Msg(DONE, JStr(T_done), <<>>, <<>>), FALSE)), "close")
  /\ rpc' = "finished"
  /\ UNCHANGED <<chatVars, genVars, clientGone, apiKey, request, fullResponse, rerr>>

\* a variant of the catch block that stores what had been relayed so far
RelayCatchSaving ==
  /\ rpc = "loop"
  /\ gpc = "failed"
  /\ rerr' = gerr
  /\ conversationStore' = SaveChatHistory(conversationStore, ConversationId(request),
                                          request.message, fullResponse)
  /\ SetEm(CatchAndClose(Em, gerr), "close")
  /\ rpc' = "finished"
  /\ UNCHANGED <<chatVars, genVars, clientGone, apiKey, request, fullResponse>>

\* the generator has thrown: the error message is sent, the stream closed
RelayCatch ==
  /\ rpc = "loop"
  /\ gpc = "failed"
  /\ rerr' = gerr
  /\ SetEm(CatchAndClose(Em, gerr), "close")
  /\ rpc' = "finished"
  /\ UNCHANGED <<chatVars, genVars, clientGone, apiKey, request, fullResponse, conversationStore>>

\* the client disconnects: the transport runs the cancel callback, once
ClientCancel ==
  /\ sink # "none"
  /\ ~clientGone
  /\ clientGone' = TRUE
  /\ SetEm(CancelCallback(Em), "cancel")
  /\ UNCHANGED <<chatVars, genVars, relayVars>>

\* the bodies a streaming request is run against: the relay never looks into
\* the body, so the items that give no fragment are represented by one of them
RelayItemIds == {"ab", "esc", "open"}

RelayUpstreams ==
  {u \in Upstreams : \A j \in 1..Len(u.items) : u.items[j] \in RelayItemIds}

RelayInit ==
  /\ upstream \in RelayUpstreams
  /\ pos = 0
  /\ buffer = <<>>
  /\ gpc = "idle"
  /\ cur = Undefined
  /\ gerr = NoError
  /\ yielded = <<>>
  /\ hardCut = FALSE
  /\ EmInit
  /\ apiKey \in BOOLEAN
  /\ request \in RelayRequests
  /\ rpc = "idle"
  /\ fullResponse = <<>>
  /\ rerr = NoError
  /\ conversationStore = <<>>
  /\ ChatIdle

RelayNext ==
  \/ HandleStreamingChat
  \/ GenStart
  \/ GenRead
  \/ GenReadDone
  \/ GenReadError
  \/ GenScan
  \/ RelayData
  \/ RelayFinish
  \/ RelayCatch
  \/ ClientCancel

SpecRelay == RelayInit /\ [][RelayNext]_vars

\* the frames from..to of the channel are data frames that carry, in order,
\* the fragments frags
DataFramesCarry(from, frags) ==
  \A j \in 1..Len(frags) :
    /\ FrameEvent(frames[from + j - 1]) = DATA
    /\ FrameData(frames[from + j - 1]) = JsToString(frags[j])

NoFrameOf(type) == \A j \in 1..Len(frames) : FrameEvent(frames[j]) # type

\* C2: when the upstream call has succeeded and the client stayed connected, the
\* channel carries one data frame per yielded fragment, in order, then exactly
\* one done frame, and is closed; no error frame
C2_DataThenDone ==
  (rpc = "finished" /\ gpc = "done" /\ ~clientGone) =>
     /\ Len(frames) = Len(yielded) + 1
     /\ DataFramesCarry(1, yielded)
     /\ FrameEvent(Last(frames)) = DONE
     /\ NoFrameOf(ERROR)
     /\ isClosed
     /\ sink = "closed"

\* a finished request that relayed two fragments to a connected client
C2_Witness ==
  rpc = "finished" /\ gpc = "done" /\ ~clientGone /\ Len(yielded) = 2 /\ Len(frames) = 3

\* C3 as stated: when the upstream call fails, exactly one error frame follows
\* the data frames already sent, the channel is closed and there is no done frame
C3_Original ==
  (rpc = "finished" /\ gpc = "failed") =>
     /\ Len(frames) = Len(yielded) + 1
     /\ DataFramesCarry(1, yielded)
     /\ FrameEvent(Last(frames)) = ERROR
     /\ NoFrameOf(DONE)
     /\ isClosed
     /\ sink = "closed"

\* C3 as amended: when the upstream call fails the channel is closed without a
\* done frame; the data frames carry a prefix of the fragments; at most one
\* error frame follows them, and exactly one, after all the data frames, when
\* the client is still connected
C3_ErrorThenClose ==
  (rpc = "finished" /\ gpc = "failed") =>
     /\ NoFrameOf(DONE)
     /\ isClosed
     /\ sink = "closed"
     /\ \E k \in 0..Len(yielded) :
          /\ k <= Len(frames)
          /\ DataFramesCarry(1, SubSeq(yielded, 1, k))
          /\ \/ Len(frames) = k
             \/ /\ Len(frames) = k + 1
                /\ k = Len(yielded)
                /\ FrameEvent(Last(frames)) = ERROR
                /\ FrameData(Last(frames)) = T_failed \o gerr
     /\ ~clientGone => Len(frames) = Len(yielded) + 1

\* a read failed after one fragment had been relayed to a connected client
C3_Witness ==
  /\ rpc = "finished"
  /\ gpc = "failed"
  /\ ~clientGone
  /\ Len(yielded) = 1
  /\ Len(frames) = 2
  /\ FrameEvent(frames[2]) = ERROR

\* C7: the cancel callback leaves the emitter as close() would; from then on
\* no frame is written, no emitter call raises and the relay catches no error
\* of a send
C7_CancelIsClose ==
  [][/\ (~clientGone /\ clientGone') =>
           /\ isClosed' = Close(Em).isClosed
           /\ controller' = Close(Em).controller
           /\ frames' = Close(Em).frames
     /\ clientGone' => /\ isClosed'
                       /\ controller' = "null"
                       /\ ~lastOp'.raised
                       /\ rerr' # T_sendFailed
     /\ clientGone => frames' = frames]_vars

\* the client left after the first of two fragments; the relay ran to its end
\* and wrote nothing more
C7_Witness ==
  /\ clientGone
  /\ rpc = "finished"
  /\ gpc = "done"
  /\ Len(yielded) = 2
  /\ Len(frames) = 1
  /\ rerr = NoError

\* the whole body has been delivered, the generator has ended without a failed
\* read, and an object that was never closed is left in the buffer
EndedUnterminated ==
  /\ upstream.ok
  /\ upstream.hasBody
  /\ pos = Len(Text)
  /\ gpc \in {"done", "failed"}
  /\ gerr # WrapStreamError(InnerReadError)
  /\ Unterminated(buffer)

\* C11 as stated: an object left open at the end of the body gives no fragment
\* and no error, the generator completes normally, and the relay ends with a
\* done frame rather than an error frame
C11_Original ==
  EndedUnterminated =>
     /\ gpc = "done"
     /\ gerr = NoError
     /\ Recoverable(upstream.items) => yielded = ExpectedOut(upstream.items)
     /\ rpc = "finished" =>
          /\ rerr = NoError
          /\ NoFrameOf(ERROR)
          /\ frames # <<>>
          /\ FrameEvent(Last(frames)) = DONE

\* C11 as amended: an object left open at the end of the body gives no fragment
\* and no error, the generator completes normally, and the relay writes no
\* error frame; it ends with a done frame when the client is still connected
C11_UnterminatedDropped ==
  EndedUnterminated =>
     /\ gpc = "done"
     /\ gerr = NoError
     /\ Recoverable(upstream.items) => yielded = ExpectedOut(upstream.items)
     /\ rpc = "finished" =>
          /\ rerr = NoError
          /\ NoFrameOf(ERROR)
          /\ ~clientGone => (frames # <<>> /\ FrameEvent(Last(frames)) = DONE)

\* a body of one object and one object left open, relayed to a connected client
C11_Witness ==
  /\ EndedUnterminated
  /\ rpc = "finished"
  /\ ~clientGone
  /\ upstream.items = <<"ab", "open">>
  /\ Len(frames) = 2
  /\ FrameEvent(frames[2]) = DONE

\* ------------------------------------------------------------------------
\* The reassembler on bodies whose texts hold braces
\* ------------------------------------------------------------------------
BraceItemIds == {"brace", "unbal", "bare"}

BraceUpstreams ==
  {[ok |-> TRUE, status |-> StatusOk, errorText |-> <<>>, hasBody |-> TRUE, items |-> it] :
     it \in UNION {[1..n -> BraceItemIds] : n \in 1..MaxItems}}

BraceInit ==
  /\ upstream \in BraceUpstreams
  /\ pos = 0
  /\ buffer = <<>>
  /\ gpc = "start"
  /\ cur = Undefined
  /\ gerr = NoError
  /\ yielded = <<>>
  /\ hardCut = FALSE
  /\ EmInit
  /\ RelayIdle
  /\ ChatIdle

SpecBrace == BraceInit /\ [][ReasmNext]_vars

\* C12 as stated: {"content":{"parts":[{"text":"a{b}c"}]}} gives the fragment
\* a{b}c exactly once
C12_Original ==
  (gpc = "done" /\ upstream.items = <<"bare">>) => yielded = <<JStr(<<"a", "{", "b", "}", "c">>)>>

\* C12 as amended: braces inside a string do not end the brace matching; each
\* object is taken from the buffer as one span, the object with the text a{b}c
\* in its first candidate gives a{b}c exactly once, the one with the text a}b
\* gives a}b exactly once, and the content object outside a candidates list
\* gives nothing
C12_BracesInString ==
  /\ gpc = "done" => /\ yielded = ExpectedOut(upstream.items)
                     /\ StripLeading(buffer) = <<>>
  /\ gpc = "yield" => cur \in {JStr(<<"a", "{", "b", "}", "c">>), JStr(<<"a", "}", "b">>)}

\* a body of the bare content object and the full object has been read to its end
C12_Witness ==
  /\ gpc = "done"
  /\ upstream.items = <<"unbal", "brace">>
  /\ yielded = <<JStr(<<"a", "}", "b">>), JStr(<<"a", "{", "b", "}", "c">>)>>

\* ------------------------------------------------------------------------
\* The reassembler on objects of several parts
\* ------------------------------------------------------------------------
PartsItemIds == {"ab", "two", "late", "empty"}

PartsUpstreams ==
  {[ok |-> TRUE, status |-> StatusOk, errorText |-> <<>>, hasBody |-> TRUE, items |-> it] :
     it \in UNION {[1..n -> PartsItemIds] : n \in 1..MaxItems}}

PartsInit ==
  /\ upstream \in PartsUpstreams
  /\ pos = 0
  /\ buffer = <<>>
  /\ gpc = "start"
  /\ cur = Undefined
  /\ gerr = NoError
  /\ yielded = <<>>
  /\ hardCut = FALSE
  /\ EmInit
  /\ RelayIdle
  /\ ChatIdle

SpecParts == PartsInit /\ [][ReasmNext]_vars

\* parts.filter(part => part.text).map(part => part.text) on the parts of the
\* first candidate's content
AllPartTexts(data) ==
  LET parts == GetProp(GetProp(GetFirst(GetProp(data, W_candidates)), W_content), W_parts)
      texts == IF parts.t = "arr" THEN [j \in 1..Len(parts.e) |-> GetProp(parts.e[j], W_text)]
               ELSE <<>>
  IN SelectSeq(texts, LAMBDA v : Truthy(v))

RECURSIVE AllTexts(_)
AllTexts(items) ==
  IF items = <<>> THEN <<>>
  ELSE AllPartTexts(JsonParse(ItemSrc(Head(items))).v) \o AllTexts(Tail(items))

\* C13: each parsed object gives one fragment per part of its first candidate
\* that holds a non-empty text, in part order, and nothing when no part does
C13_EveryPart == gpc = "done" => yielded = AllTexts(upstream.items)

\* ------------------------------------------------------------------------
\* The frames of the emitter
\* ------------------------------------------------------------------------
\* the kind of a frame line: 1 id, 2 event, 3 data, 4 retry, 0 anything else
LineKind(line) ==
  IF IsPrefix(P_id, line) THEN 1
  ELSE IF IsPrefix(P_event, line) THEN 2
  ELSE IF IsPrefix(P_data, line) THEN 3
  ELSE IF IsPrefix(P_retry, line) THEN 4
  ELSE 0

\* the lines of a frame are: at most one id line, one event line, data lines,
\* at most one retry line, in this order, and the blank line that ends it
WellOrdered(frame) ==
  LET ls == FrameLines(frame)
      n == Len(ls) - 2
  IN /\ n >= 1
     /\ ls[n + 1] = <<>>
     /\ ls[n + 2] = <<>>
     /\ \A j \in 1..n : LineKind(ls[j]) # 0
     /\ \A j \in 1..(n - 1) : LineKind(ls[j]) <= LineKind(ls[j + 1])
     /\ Cardinality({j \in 1..n : LineKind(ls[j]) = 2}) = 1
     /\ Cardinality({j \in 1..n : LineKind(ls[j]) = 1}) <= 1
     /\ Cardinality({j \in 1..n : LineKind(ls[j]) = 4}) <= 1

\* C19: every frame written by any emitter operation has its lines in the
\* order id (optional), event, data, retry (optional), blank line
C19_FrameOrder == \A j \in 1..Len(frames) : WellOrdered(frames[j])

\* C20: when sendMessage writes a frame for a message with a payload, the
\* frame has one data line per line of the encoded payload (a string as is,
\* any other value as JSON), in order, and the contents of the data lines
\* joined by newlines are the encoded payload
C20_DataLines ==
  [][(lastOp'.op = "sendMessage" /\ Len(frames') = Len(frames) + 1) =>
       \E message \in Messages :
         /\ Last(frames') = Serialize(message).sseData
         /\ message.data.t # "undefined" =>
              /\ LinesWith(Last(frames'), P_data) = SplitLines(Encoded(message.data))
              /\ FrameData(Last(frames')) = Encoded(message.data)]_vars

\* sendMessage has written a frame of two data lines
C20_Witness ==
  /\ lastOp.op = "sendMessage"
  /\ frames # <<>>
  /\ LinesWith(Last(frames), P_data) = <<<<"a">>, <<"b">>>>

\* ------------------------------------------------------------------------
\* The non-streaming call: GeminiClient.chat and extractTextFromResponse
\* ------------------------------------------------------------------------
\* a result: a value, or the message of the Error thrown
Returned(v) == [ok |-> TRUE, v |-> v, err |-> <<>>]

Thrown(msg) == [ok |-> FALSE, v |-> <<>>, err |-> msg]

E_typeError == <<"<TypeError: cannot read properties>">>

E_syntaxError == <<"<SyntaxError: unexpected token>">>

E_noCandidates == <<"<the AI generated no valid reply>">>

E_safety == <<"<the request involves sensitive content>">>

E_noContent == <<"<the AI generated no valid reply content>">>

E_noText == <<"<the AI generated no valid text reply>">>

\* reading a property of null or undefined throws
Nullish(v) == v.t \in {"null", "undefined"}

\* String.prototype.trim()
RECURSIVE TrimStart(_)
TrimStart(s) == IF s # <<>> /\ Head(s) \in JsonWs THEN TrimStart(Tail(s)) ELSE s

RECURSIVE TrimEnd(_)
TrimEnd(s) ==
  IF s # <<>> /\ s[Len(s)] \in JsonWs THEN TrimEnd(SubSeq(s, 1, Len(s) - 1)) ELSE s

Trim(s) == TrimEnd(TrimStart(s))

\* textParts.join('')
RECURSIVE JoinTexts(_)
JoinTexts(texts) ==
  IF texts = <<>> THEN <<>> ELSE JsToString(Head(texts)) \o JoinTexts(Tail(texts))

\* a variant that answers with an empty text where no text is found
ExtractTextLenient(data) ==
  IF Nullish(data) THEN Thrown(E_typeError)
  ELSE LET texts == AllPartTexts(data) IN Returned(Trim(JoinTexts(texts)))

\* a variant that takes the text of the first part only and does not trim it
ExtractTextFirstPart(data) ==
  IF Nullish(data) THEN Thrown(E_typeError)
  ELSE LET texts == AllPartTexts(data) IN
    IF texts = <<>> THEN Thrown(E_noText) ELSE Returned(JsToString(texts[1]))

ExtractTextFromResponse(data) ==
  IF Nullish(data) THEN Thrown(E_typeError)
  ELSE LET candidates == GetProp(data, W_candidates) IN
    IF ~Truthy(candidates) \/ (candidates.t = "arr" /\ candidates.e = <<>>)
    THEN Thrown(E_noCandidates)
    ELSE LET candidate == GetFirst(candidates) IN
      IF Nullish(candidate) THEN Thrown(E_typeError)
      ELSE IF GetProp(candidate, W_finishReason) = JStr(SAFETY) THEN Thrown(E_safety)
      ELSE LET content == GetProp(candidate, W_content)
               parts == GetProp(content, W_parts)
           IN IF ~Truthy(content) \/ ~Truthy(parts) \/ (parts.t = "arr" /\ parts.e = <<>>)
              THEN Thrown(E_noContent)
              ELSE IF parts.t # "arr" THEN Thrown(E_typeError)
              ELSE IF \E j \in 1..Len(parts.e) : Nullish(parts.e[j]) THEN Thrown(E_typeError)
              ELSE LET texts == AllPartTexts(data) IN
                IF texts = <<>> THEN Thrown(E_noText)
                ELSE Returned(Trim(JoinTexts(texts)))

\* catch (error) { throw new Error(`AI service unavailable: ${error.message}`) }
WrapChatError(inner) == <<"<AI service unavailable: >">> \o inner

\* chat() from the moment its fetch has been answered by u
Chat(u) ==
  IF ~u.ok THEN Thrown(WrapChatError(InnerHttpError(u.status, u.errorText)))
  ELSE LET data == IF u.hasBody THEN JsonParse(Render(u.items)) ELSE ParseFail IN
    IF ~data.ok THEN Thrown(WrapChatError(E_syntaxError))
    ELSE LET text == ExtractTextFromResponse(data.v) IN
      IF text.ok THEN text ELSE Thrown(WrapChatError(text.err))

\* ------------------------------------------------------------------------
\* ChatService.handleChatRequest and handleStandardChat
\* ------------------------------------------------------------------------
W_stream == <<"s", "t", "r", "e", "a", "m">>

W_conversation_id == <<"c", "o", "n", "v", "e", "r", "s", "a", "t", "i", "o", "n", "_", "i", "d">>

W_error == <<"e", "r", "r", "o", "r">>

W_details == <<"d", "e", "t", "a", "i", "l", "s">>

W_requestId == <<"r", "e", "q", "u", "e", "s", "t", "I", "d">>

Status400 == <<"4", "0", "0">>

T_emptyBody == <<"<the request body must not be empty>">>

T_invalidJson == <<"<invalid JSON>">>

T_invalidMessage == <<"<invalid message parameter>">>

T_chatFailed == <<"<handling the chat request failed>">>

T_requestId == <<"<request-id>">>

\* the Response of the validation failures and of the catch block
ErrorResponse(status, error, details) ==
  JsonResponse(status, JObj(<<W_error, W_details, W_requestId>>,
                            <<JStr(error), JStr(details), JStr(T_requestId)>>))

W_user_id == <<"u", "s", "e", "r", "_", "i", "d">>

W_id == <<"i", "d">>

W_email == <<"e", "m", "a", "i", "l">>

W_role == <<"r", "o", "l", "e">>

\* validateAuth(request): the anonymous user
ValidateAuth ==
  JObj(<<W_id, W_email, W_role>>,
       <<JStr(<<"<anonymous-user-id>">>), JStr(<<"<anonymous@example.com>">>),
         JStr(<<"u", "s", "e", "r">>)>>)

\* the members of an object that JSON.stringify writes: a member whose value is
\* undefined is left out
Written(v) ==
  LET kept == {j \in 1..Len(v.k) : v.e[j].t # "undefined"}
      Keep(seq) == [j \in 1..Cardinality(kept) |->
                      seq[CHOOSE h \in kept : Cardinality({g \in kept : g < h}) = j - 1]]
  IN JObj(Keep(v.k), Keep(v.e))

\* the Response of handleStandardChat
ChatResponse(aiResponse, conversationId) ==
  JsonResponse(StatusOk,
               Written(JObj(<<W_message, W_timestamp, W_conversation_id, W_user_id>>,
                            <<JStr(aiResponse), JStr(NowIso), JStr(conversationId),
                              GetProp(ValidateAuth, W_user_id)>>)))

\* "key":<lit>
Member(k, lit) == Key(k) \o <<":">> \o lit

B_hi == Member(W_message, <<QT, "h", "i", QT>>)

B_c1 == Member(W_conversation_id, <<QT, "c", "1", QT>>)

B_stream == Member(W_stream, <<"t", "r", "u", "e">>)

B_nostream == Member(W_stream, <<"f", "a", "l", "s", "e">>)

\* the request bodies
Bodies ==
  {<<>>,
   <<"{">>,
   <<"n", "u", "l", "l">>,
   <<"[", "]">>,
   <<"{", "}">>,
   <<"{">> \o Member(W_message, <<QT, QT>>) \o <<"}">>,
   <<"{">> \o Member(W_message, <<"t", "r", "u", "e">>) \o <<",">> \o B_stream \o <<"}">>,
   <<"{">> \o B_stream \o <<"}">>,
   <<"{">> \o B_hi \o <<"}">>,
   <<"{">> \o B_hi \o <<",">> \o B_nostream \o <<"}">>,
   <<"{">> \o B_hi \o <<",">> \o B_c1 \o <<"}">>,
   <<"{">> \o B_hi \o <<",">> \o B_stream \o <<"}">>}

\* the ChatRequest fields the handlers use, from the parsed body
RequestOf(v) ==
  LET cid == GetProp(v, W_conversation_id) IN
    [message |-> GetProp(v, W_message).s,
     conversation_id |-> IF cid.t = "str" THEN cid.s ELSE <<>>]

\* handleChatRequest up to its first wait: the body is read, parsed and
\* validated; a streaming request is handed to handleStreamingChat, a standard
\* one creates the client and sends the upstream call
ReceiveRequest ==
  /\ cpc = "recv"
  /\ LET parsed == JsonParse(body)
         chatRequest == parsed.v
         message == GetProp(chatRequest, W_message)
     IN
       IF body = <<>>
       THEN /\ response' = ErrorResponse(Status400, T_emptyBody, <<>>)
            /\ cpc' = "returned"
            /\ UNCHANGED <<calls, request, rpc>>
       ELSE IF ~parsed.ok
       THEN /\ response' = ErrorResponse(Status400, T_invalidJson, <<>>)
            /\ cpc' = "returned"
            /\ UNCHANGED <<calls, request, rpc>>
       ELSE IF Nullish(chatRequest)
       THEN /\ response' = ErrorResponse(Status500, T_chatFailed, E_typeError)
            /\ cpc' = "returned"
            /\ UNCHANGED <<calls, request, rpc>>
       ELSE IF ~Truthy(message) \/ message.t # "str"
       THEN /\ response' = ErrorResponse(Status400, T_invalidMessage, <<>>)
            /\ cpc' = "returned"
            /\ UNCHANGED <<calls, request, rpc>>
       ELSE IF Truthy(GetProp(chatRequest, W_stream))
       THEN /\ request' = RequestOf(chatRequest)
            /\ rpc' = "idle"
            /\ cpc' = "stream"
            /\ UNCHANGED <<calls, response>>
       ELSE IF ~apiKey
       THEN /\ response' = ErrorResponse(Status500, T_chatFailed, T_missingKey)
            /\ cpc' = "returned"
            /\ UNCHANGED <<calls, request, rpc>>
       ELSE /\ request' = RequestOf(chatRequest)
            /\ calls' = calls + 1
            /\ cpc' = "await"
            /\ UNCHANGED <<response, rpc>>
  /\ UNCHANGED <<genVars, emVars, logger, inflight, body, apiKey, fullResponse, rerr, conversationStore>>

\* a variant that sends the upstream call again when it has failed once
StandardRespondRetrying ==
  /\ cpc = "await"
  /\ LET aiResponse == Chat(upstream) IN
       IF aiResponse.ok
       THEN /\ conversationStore' = SaveChatHistory(conversationStore, ConversationId(request),
                                                    request.message, aiResponse.v)
            /\ response' = ChatResponse(aiResponse.v, ConversationId(request))
            /\ cpc' = "returned"
            /\ calls' = calls
       ELSE IF calls < 2
       THEN /\ calls' = calls + 1
            /\ UNCHANGED <<conversationStore, response, cpc>>
       ELSE /\ response' = ErrorResponse(Status500, T_chatFailed, aiResponse.err)
            /\ cpc' = "returned"
            /\ UNCHANGED <<conversationStore, calls>>
  /\ UNCHANGED <<genVars, emVars, logger, inflight, body, apiKey, request, rpc, fullResponse, rerr>>

\* the upstream call is answered: chat() gives the text or throws, the turn is
\* saved and the Response is built, or the catch block builds the error Response
StandardRespond ==
  /\ cpc = "await"
  /\ LET aiResponse == Chat(upstream) IN
       IF aiResponse.ok
       THEN /\ conversationStore' = SaveChatHistory(conversationStore, ConversationId(request),
                                                    request.message, aiResponse.v)
            /\ response' = ChatResponse(aiResponse.v, ConversationId(request))
       ELSE /\ response' = ErrorResponse(Status500, T_chatFailed, aiResponse.err)
            /\ UNCHANGED conversationStore
  /\ cpc' = "returned"
  /\ UNCHANGED <<genVars, emVars, logger, inflight, body, calls, apiKey, request, rpc, fullResponse, rerr>>

ChatItemIds == {"stop", "pad", "safety", "safetext", "none", "late", "empty", "junk"}

\* the answers of the provider to the one call of a request
ChatUpstreams ==
  {[ok |-> TRUE, status |-> StatusOk, errorText |-> <<>>, hasBody |-> TRUE, items |-> <<id>>] :
     id \in ChatItemIds}
  \cup {[ok |-> FALSE, status |-> Status500, errorText |-> ErrorBody, hasBody |-> TRUE,
         items |-> <<>>],
        [ok |-> TRUE, status |-> StatusOk, errorText |-> <<>>, hasBody |-> FALSE,
         items |-> <<>>]}

ChatInit ==
  /\ upstream \in ChatUpstreams
  /\ pos = 0
  /\ buffer = <<>>
  /\ gpc = "idle"
  /\ cur = Undefined
  /\ gerr = NoError
  /\ yielded = <<>>
  /\ hardCut = FALSE
  /\ EmInit
  /\ apiKey \in BOOLEAN
  /\ request = [message |-> <<>>, conversation_id |-> <<>>]
  /\ rpc = "none"
  /\ fullResponse = <<>>
  /\ rerr = NoError
  /\ conversationStore = <<>>
  /\ body \in Bodies
  /\ cpc = "recv"
  /\ calls = 0
  /\ response = NoResponse
  /\ inflight = <<>>
  /\ logger = <<>>

ChatNext ==
  \/ ReceiveRequest
  \/ StandardRespond
  \/ HandleStreamingChat
  \/ GenStart
  \/ GenRead
  \/ GenReadDone
  \/ GenReadError
  \/ GenScan
  \/ RelayData
  \/ RelayFinish
  \/ RelayCatch
  \/ ClientCancel

SpecChat == ChatInit /\ [][ChatNext]_vars

\* the body is JSON without a message that is a non-empty string
InvalidMessage(b) ==
  LET parsed == JsonParse(b)
      message == GetProp(parsed.v, W_message)
  IN parsed.ok /\ ~(message.t = "str" /\ message.s # <<>>)

\* the body is a request with a valid message and no stream flag set
StandardRequest(b) ==
  LET parsed == JsonParse(b) IN
    /\ parsed.ok
    /\ ~InvalidMessage(b)
    /\ ~Truthy(GetProp(parsed.v, W_stream))

HasError(resp) == resp.type = "json" /\ GetProp(resp.body, W_error).t = "str"

\* C14: a body without a message that is a non-empty string is answered with
\* 400 and an error field, with or without the stream flag; no upstream call
\* is made and no stream is opened for it
C14_InvalidMessage400 ==
  InvalidMessage(body) =>
     /\ calls = 0
     /\ sink = "none"
     /\ cpc = "returned" => (response.status = Status400 /\ HasError(response))

\* the answer of the provider: a first candidate with a non-empty text part and
\* a finish reason other than SAFETY
UsableAnswer(u) ==
  /\ u.ok
  /\ u.hasBody
  /\ LET data == JsonParse(Render(u.items)) IN
       /\ data.ok
       /\ AllPartTexts(data.v) # <<>>
       /\ GetProp(GetFirst(GetProp(data.v, W_candidates)), W_finishReason) # JStr(SAFETY)

\* the reply expected for an answer: the texts of its parts joined and trimmed
ChatOut(id) ==
  CASE id = "stop" -> <<"h", "e", "l", "l", "o">>
    [] id = "pad" -> <<"a", "b">>
    [] id = "late" -> <<"b">>
    [] OTHER -> <<>>

\* C15: a standard request with a valid message whose upstream call returns a
\* usable answer gets 200; the message is the concatenation of the non-empty
\* text parts, trimmed; the conversation_id is non-empty and is the request's
\* when the request has one
C15_StandardReply ==
  (cpc = "returned" /\ StandardRequest(body) /\ calls = 1 /\ UsableAnswer(upstream)) =>
     /\ response.status = StatusOk
     /\ response.type = "json"
     /\ GetProp(response.body, W_message) = JStr(ChatOut(upstream.items[1]))
     /\ LET cid == GetProp(response.body, W_conversation_id)
            asked == GetProp(JsonParse(body).v, W_conversation_id)
        IN /\ cid.t = "str"
           /\ cid.s # <<>>
           /\ Truthy(asked) => cid = asked

\* a request with a conversation id has been answered from two padded parts
C15_Witness ==
  /\ cpc = "returned"
  /\ upstream.ok
  /\ upstream.items = <<"pad">>
  /\ response.status = StatusOk
  /\ GetProp(response.body, W_conversation_id) = JStr(<<"c", "1">>)

\* C16: a standard request with a valid message whose upstream call fails (a
\* non-success status, no candidates, the SAFETY finish reason, no text part, or
\* a body that is not JSON) gets a 500 Response with an error field
C16_StandardFailure500 ==
  (cpc = "returned" /\ StandardRequest(body) /\ calls = 1 /\ ~UsableAnswer(upstream)) =>
     /\ response.status = Status500
     /\ HasError(response)
     /\ conversationStore = <<>>

\* a standard request has run into a safety-blocked answer
C16_Witness ==
  /\ cpc = "returned"
  /\ upstream.ok
  /\ upstream.items = <<"safety">>
  /\ response.status = Status500
  /\ calls = 1

\* the provider has answered without usable text: no candidate, a candidate
\* blocked for safety, or a first candidate without a non-empty text part
ZeroUsable(u) ==
  /\ u.ok
  /\ u.hasBody
  /\ JsonParse(Render(u.items)).ok
  /\ ~UsableAnswer(u)

\* C17 as stated: an answer without usable text is a failure in both paths: an
\* error Response for a standard request, an error frame and no done frame for
\* a streaming request
C17_Original ==
  ZeroUsable(upstream) =>
     /\ (cpc = "returned" /\ StandardRequest(body) /\ calls = 1) =>
          (response.status = Status500 /\ HasError(response))
     /\ (rpc = "finished" /\ gpc = "done" /\ ~clientGone) =>
          (~NoFrameOf(ERROR) /\ NoFrameOf(DONE))

\* C17 as amended: an answer without usable text is a failure for a standard
\* request only; for a streaming request whose upstream call was made and whose
\* reads did not fail, the generator completes normally, the relay writes no
\* error frame and ends with a done frame when the client is still connected
C17_EmptyFailsStandardOnly ==
  ZeroUsable(upstream) =>
     /\ (cpc = "returned" /\ StandardRequest(body) /\ calls = 1) =>
          (response.status = Status500 /\ HasError(response))
     /\ (rpc = "finished" /\ calls = 1 /\ rerr # WrapStreamError(InnerReadError)) =>
          /\ gpc = "done"
          /\ NoFrameOf(ERROR)
          /\ rerr = NoError
          /\ ~clientGone => (frames # <<>> /\ FrameEvent(Last(frames)) = DONE)

\* a streaming request has run into a safety-blocked answer and ended with the
\* done frame alone
C17_Witness ==
  /\ rpc = "finished"
  /\ gpc = "done"
  /\ ~clientGone
  /\ upstream.items = <<"safety">>
  /\ Len(frames) = 1
  /\ FrameEvent(frames[1]) = DONE

\* C18: a request causes at most one upstream call, in both paths, whether
\* the call succeeds or fails, and none when the request is rejected
C18_SingleCall ==
  /\ calls <= 1
  /\ (cpc = "returned" /\ response.status = Status400) => calls = 0

\* a standard request whose single call has failed has been answered
C18_Witness ==
  /\ cpc = "returned"
  /\ ~upstream.ok
  /\ response.status = Status500
  /\ calls = 1

\* C21: sendError on an open emitter whose write succeeds writes exactly one
\* error frame and leaves the emitter open with its controller and its stream;
\* a send that follows on the open emitter still writes its frame
C21_ErrorKeepsOpen ==
  [][/\ (EmSendError /\ IsOpen(Em) /\ ~lastOp'.threw) =>
          /\ frames' = Append(frames, ErrorWire(<<"b", "o", "o", "m">>))
          /\ FrameEvent(Last(frames')) = ERROR
          /\ ~isClosed'
          /\ controller' = controller
          /\ sink' = "readable"
          /\ timers' = timers
     /\ (lastOp.op = "sendError" /\ ~lastOp.threw /\ IsOpen(Em)
           /\ lastOp'.op \in SendOps /\ ~lastOp'.threw) => Len(frames') = Len(frames) + 1]_vars

\* a data frame has been written after an error frame, and the emitter is open
C21_Witness ==
  /\ Len(frames) = 2
  /\ FrameEvent(frames[1]) = ERROR
  /\ FrameEvent(frames[2]) = DATA
  /\ ~isClosed
  /\ controller = "ctrl"

\* the emitter with its timers: a callback set by setTimeout is run by the
\* event loop once its delay has passed
SpecEmitterLive == EmitterInit /\ [][EmitterNext]_vars /\ WF_vars(EmTimer)

\* C22: sendDone on an open emitter returns with the done frame written and the
\* emitter still open; the close happens in a later step, and after every call
\* of sendDone the emitter is eventually closed
C22_DeferredClose ==
  /\ [][(EmSendDone /\ IsOpen(Em) /\ ~lastOp'.threw) =>
          /\ Len(frames') = Len(frames) + 1
          /\ FrameEvent(Last(frames')) = DONE
          /\ ~isClosed'
          /\ controller' = "ctrl"
          /\ sink' = "readable"]_vars
  /\ (lastOp.op = "sendDone" ~> isClosed)

\* the timer of a sendDone has closed the emitter behind the done frame; nobody
\* called close() and the client did not cancel
C22_Witness ==
  /\ lastOp.op = "timer"
  /\ isClosed
  /\ sink = "closed"
  /\ ~closeCalled
  /\ ~clientGone
  /\ frames # <<>>
  /\ FrameEvent(Last(frames)) = DONE

\* C23: a streaming request attaches the sink of its emitter once, in the step
\* that starts it and before any fragment is relayed; the sink never returns to
\* unattached, and a fragment relayed while the emitter is not closed is written
\* as a data frame
C23_AttachedOnce ==
  [][/\ (sink = "none" /\ sink' # "none") =>
          /\ rpc = "idle"
          /\ gpc = "idle"
          /\ yielded' = <<>>
          /\ frames' = <<>>
     /\ sink # "none" => sink' # "none"
     /\ (controller # "ctrl" /\ controller' = "ctrl") => sink = "none"
     /\ rpc' # "idle" => sink' # "none"
     /\ yielded' # yielded =>
          /\ sink # "none"
          /\ controller = "null" => isClosed
          /\ ~isClosed =>
               /\ Len(frames') = Len(frames) + 1
               /\ FrameEvent(Last(frames')) = DATA
               /\ FrameData(Last(frames')) = JsToString(cur)]_vars

\* two fragments were relayed on the attached sink and both were written
C23_Witness ==
  /\ rpc = "loop"
  /\ sink = "readable"
  /\ ~isClosed
  /\ Len(yielded) = 2
  /\ Len(frames) = 2
  /\ DataFramesCarry(1, yielded)

\* C24: every 200 Response to a standard request is a JSON object that has the
\* four fields message, conversation_id, timestamp and user_id
C24_FourFields ==
  (cpc = "returned" /\ response.type = "json" /\ response.status = StatusOk) =>
     /\ response.body.t = "obj"
     /\ \A key \in {W_message, W_conversation_id, W_timestamp, W_user_id} :
          \E j \in 1..Len(response.body.k) : response.body.k[j] = key

\* s is the end of t
IsSuffix(s, t) == Len(s) <= Len(t) /\ SubSeq(t, Len(t) - Len(s) + 1, Len(t)) = s

\* the scan from the first opening brace of buf finds its closing brace
HoldsObject(buf) ==
  LET startIndex == IndexOf(buf, "{", 1) IN startIndex # 0 /\ MatchBrace(buf, startIndex) # 0

\* C25: the buffer is always the end of the text received so far, and once the
\* extraction loop has left a chunk the buffer holds no object that the scan
\* from its first opening brace would close
C25_UnconsumedSuffix ==
  /\ IsSuffix(buffer, SubSeq(Text, 1, pos))
  /\ gpc \in {"read", "done", "failed"} => ~HoldsObject(buffer)

\* one object has been consumed and the beginning of the next one waits in the
\* buffer for the rest of the body
C25_Witness ==
  /\ gpc = "read"
  /\ Len(yielded) = 1
  /\ pos < Len(Text)
  /\ buffer # <<>>
  /\ Head(buffer) = "{"
  /\ Len(buffer) < pos

\* a scanner with explicit states: Searching until the opening brace, InObject
\* between string literals, InString inside one, Escaped after a backslash
\* inside one; only braces read in InObject are counted
RefChar(st, buf, i) ==
  IF st.endIndex # 0 THEN st
  ELSE CASE st.mode = "Searching" ->
              IF buf[i] = "{" THEN [st EXCEPT !.mode = "InObject", !.depth = 1] ELSE st
         [] st.mode = "InObject" ->
              IF buf[i] = QT THEN [st EXCEPT !.mode = "InString"]
              ELSE IF buf[i] = "{" THEN [st EXCEPT !.depth = st.depth + 1]
              ELSE IF buf[i] = "}"
                THEN IF st.depth = 1 THEN [st EXCEPT !.depth = 0, !.endIndex = i]
                     ELSE [st EXCEPT !.depth = st.depth - 1]
              ELSE st
         [] st.mode = "InString" ->
              IF buf[i] = BS THEN [st EXCEPT !.mode = "Escaped"]
              ELSE IF buf[i] = QT THEN [st EXCEPT !.mode = "InObject"]
              ELSE st
         [] OTHER -> [st EXCEPT !.mode = "InString"]

RECURSIVE RefRange(_, _, _, _)
RefRange(buf, lo, hi, st) ==
  IF lo > hi \/ st.endIndex # 0 THEN st
  ELSE IF lo = hi THEN RefChar(st, buf, lo)
  ELSE LET mid == (lo + hi) \div 2 IN RefRange(buf, mid + 1, hi, RefRange(buf, lo, mid, st))

\* where the span that opens at startIndex ends for that scanner; 0 for nowhere
RefSpanEnd(buf, startIndex) ==
  RefRange(buf, startIndex, Len(buf), [mode |-> "Searching", depth |-> 0, endIndex |-> 0]).endIndex

\* C26: from the opening brace the extraction loop starts at, the loop's scan
\* ends where the scanner with explicit states ends
C26_SameSpan ==
  LET startIndex == IndexOf(buffer, "{", 1) IN
    startIndex # 0 => MatchBrace(buffer, startIndex) = RefSpanEnd(buffer, startIndex)

\* ------------------------------------------------------------------------
\* Standard requests handled side by side by the one ChatService: a request is
\* suspended at `await geminiClient.generateResponse(...)`, and what follows up
\* to the Response, saveChatHistory included, runs without another request in
\* between because saveChatHistory awaits nothing
\* ------------------------------------------------------------------------
MaxRequests == 3

RequestIds == 1..MaxRequests

StoreItemIds == {"stop", "pad", "safety"}

\* a request arrives and is suspended at the upstream call
StoreArrive(r) ==
  /\ inflight[r].pc = "none"
  /\ \E q \in Requests :
       inflight' = [inflight EXCEPT ![r] = [pc |-> "await", request |-> q,
                                            response |-> NoResponse]]
  /\ UNCHANGED <<genVars, emVars, relayVars, logger, body, cpc, calls, response>>

\* the upstream call of request r settles and handleStandardChat runs to its end
StoreAnswer(r) ==
  /\ inflight[r].pc = "await"
  /\ \E id \in StoreItemIds :
       LET q == inflight[r].request
           aiResponse == Chat([ok |-> TRUE, status |-> StatusOk, errorText |-> <<>>,
                               hasBody |-> TRUE, items |-> <<id>>])
       IN IF aiResponse.ok
          THEN /\ conversationStore' = SaveChatHistory(conversationStore, ConversationId(q),
                                                       q.message, aiResponse.v)
               /\ inflight' = [inflight EXCEPT ![r].pc = "returned",
                                 ![r].response = ChatResponse(aiResponse.v, ConversationId(q))]
          ELSE /\ conversationStore' = conversationStore
               /\ inflight' = [inflight EXCEPT ![r].pc = "returned",
                                 ![r].response = ErrorResponse(Status500, T_chatFailed,
                                                               aiResponse.err)]
  /\ UNCHANGED <<genVars, emVars, logger, body, cpc, calls, response,
                 apiKey, request, rpc, fullResponse, rerr>>

StoreInit ==
  /\ upstream = [ok |-> TRUE, status |-> StatusOk, errorText |-> <<>>, hasBody |-> TRUE,
                 items |-> <<>>]
  /\ pos = 0
  /\ buffer = <<>>
  /\ gpc = "idle"
  /\ cur = Undefined
  /\ gerr = NoError
  /\ yielded = <<>>
  /\ hardCut = FALSE
  /\ EmInit
  /\ RelayIdle
  /\ body = <<>>
  /\ cpc = "none"
  /\ calls = 0
  /\ response = NoResponse
  /\ inflight = [r \in RequestIds |->
                   [pc |-> "none", request |-> [message |-> <<>>, conversation_id |-> <<>>],
                    response |-> NoResponse]]
  /\ logger = <<>>

StoreNext == \E r \in RequestIds : StoreArrive(r) \/ StoreAnswer(r)

SpecStore == StoreInit /\ [][StoreNext]_vars

\* the turns stored for one conversation
Turns(store, id) == SelectSeq(store, LAMBDA t : t.conversationId = id)

\* the requests for conversation id that have been answered with 200
Succeeded(id) ==
  {r \in DOMAIN inflight : /\ inflight[r].pc = "returned"
                           /\ inflight[r].response.status = StatusOk
                           /\ ConversationId(inflight[r].request) = id}

\* C27: whatever the order in which requests handled side by side are answered,
\* the store only grows at its end, it holds one turn per successful request of
\* each conversation, and each such request's message and reply are in it
C27_AppendOnly ==
  [][/\ IsPrefix(conversationStore, conversationStore')
     /\ \A id \in {<<"c", "1">>, T_generatedId} :
          /\ Len(Turns(conversationStore', id)) = Cardinality(Succeeded(id)')
          /\ \A r \in Succeeded(id)' :
               \E j \in 1..Len(conversationStore') :
                 conversationStore'[j] =
                   [conversationId |-> id,
                    userMessage |-> inflight'[r].request.message,
                    aiResponse |-> GetProp(inflight'[r].response.body, W_message).s]]_vars

\* every request used the same conversation id and succeeded, with different
\* replies, and the conversation has one turn for each
C27_Witness ==
  /\ \A r \in DOMAIN inflight :
       /\ inflight[r].pc = "returned"
       /\ inflight[r].response.status = StatusOk
       /\ inflight[r].request.conversation_id = <<"c", "1">>
  /\ Len(Turns(conversationStore, <<"c", "1">>)) = MaxRequests
  /\ conversationStore[1].aiResponse # conversationStore[2].aiResponse

\* C28: the first frame of a streaming response is the start frame
C28_StartFirst ==
  (rpc # "idle" /\ frames # <<>>) => FrameEvent(frames[1]) = START

\* C29: when processStreamingResponse has caught an error and the client is
\* still connected, the channel is closed and its last frame is an error frame
C29_ErrorBeforeClose ==
  (rpc = "finished" /\ rerr # NoError /\ ~clientGone) =>
     /\ isClosed
     /\ frames # <<>>
     /\ FrameEvent(Last(frames)) = ERROR

\* C30: a closed emitter holds no controller
C30_ClosedReleased == isClosed => controller = "null"

\* the relay with its scheduling: when the generator has returned or thrown, the
\* for-await loop of processStreamingResponse is resumed by the event loop, so
\* the code after the loop, or the catch block, is eventually run; nothing is
\* assumed of the upstream reads or of the client
RelayResume == RelayFinish \/ RelayCatch

\* the bodies of the runs whose end is followed: what the objects hold makes
\* no difference to how a relay ends
LiveUpstreams ==
  {u \in Upstreams : \A j \in 1..Len(u.items) : u.items[j] = "ab"}

RelayLiveInit == RelayInit /\ upstream \in LiveUpstreams

SpecRelayLive == RelayLiveInit /\ [][RelayNext]_vars /\ WF_vars(RelayResume)

\* C31: once the streaming request has been started and its upstream call has
\* ended or failed, or the relay is over, the stream given to the client is
\* eventually closed
C31_StreamTerminated ==
  (rpc # "idle" /\ (gpc \in {"done", "failed"} \/ rpc = "finished")) ~> (sink = "closed")

\* the upstream call failed after a fragment had been relayed to a connected
\* client, and the stream has been closed
C31_Witness ==
  /\ rpc = "finished"
  /\ gpc = "failed"
  /\ gerr = WrapStreamError(InnerReadError)
  /\ ~clientGone
  /\ Len(yielded) = 1
  /\ sink = "closed"
  /\ isClosed

\* C32: when sendDone has just written its done frame, the next operation on
\* the emitter, whichever it is, writes no frame
C32_DoneIsLast ==
  [][(/\ lastOp.op = "sendDone"
      /\ ~lastOp.threw
      /\ frames # <<>>
      /\ FrameEvent(Last(frames)) = DONE) => frames' = frames]_vars

\* C33: a request whose upstream call fails, answered by handleStandardChat or
\* relayed by processStreamingResponse, with or without fragments relayed before
\* the failure, appends no turn to the conversation store
C33_FailureStoresNothing ==
  /\ (cpc = "returned" /\ StandardRequest(body) /\ ~UsableAnswer(upstream)) =>
        conversationStore = <<>>
  /\ (gpc = "failed" \/ rerr # NoError) => conversationStore = <<>>

\* a read failed after a fragment had been relayed; the relay is over and the
\* store is empty
C33_Witness ==
  /\ rpc = "finished"
  /\ gpc = "failed"
  /\ yielded # <<>>
  /\ fullResponse # <<>>
  /\ conversationStore = <<>>

\* the fragments as `fullResponse += chunk` adds them up
RECURSIVE ConcatAll(_)
ConcatAll(frags) ==
  IF frags = <<>> THEN <<>> ELSE JsToString(Head(frags)) \o ConcatAll(Tail(frags))

\* C34: when the upstream stream has ended normally and the relay is over, the
\* store holds exactly one turn, whose aiResponse is the fragments yielded, in
\* order, whether the client stayed or left; nothing is stored while the
\* fragments are relayed, and a done frame is written only with the turn stored
C34_TurnBeforeDone ==
  /\ (rpc = "finished" /\ gpc = "done" /\ rerr = NoError) =>
        /\ Len(conversationStore) = 1
        /\ conversationStore[1].aiResponse = ConcatAll(yielded)
        /\ conversationStore[1].userMessage = request.message
        /\ conversationStore[1].conversationId = ConversationId(request)
  /\ rpc = "loop" => conversationStore = <<>>
  /\ NoFrameOf(DONE) \/ Len(conversationStore) = 1

\* the client left after the first of two fragments and the turn holds both
C34_Witness ==
  /\ clientGone
  /\ rpc = "finished"
  /\ gpc = "done"
  /\ Len(yielded) = 2
  /\ Len(frames) = 1
  /\ Len(conversationStore) = 1
  /\ conversationStore[1].aiResponse = ConcatAll(yielded)

\* ------------------------------------------------------------------------
\* Logger: one context per request id, with its own event counter and its
\* buffer of entries; an entry is kept as its eventNumber and requestId. What
\* is printed for an entry without context (eventNumber 0) is not kept.
\* ------------------------------------------------------------------------
MaxEvents == 3

NoContext == [present |-> FALSE, eventCounter |-> 0, logBuffer |-> <<>>]

\* the Logger after construction; output[r] holds the buffers flushed for r
LoggerNew ==
  [requestContexts |-> [r \in RequestIds |-> NoContext],
   output |-> [r \in RequestIds |-> <<>>]]

\* a variant of log that numbers the entries with one counter for all requests
LogGlobal(lg, r) ==
  LET context == lg.requestContexts[r]
      Sum[n \in 0..MaxRequests] ==
        IF n = 0 THEN 0 ELSE Sum[n - 1] + lg.requestContexts[n].eventCounter
  IN IF ~context.present THEN lg
     ELSE [lg EXCEPT !.requestContexts[r] =
             [context EXCEPT !.eventCounter = context.eventCounter + 1,
                             !.logBuffer = Append(context.logBuffer,
                                                  [eventNumber |-> Sum[MaxRequests] + 1,
                                                   requestId |-> r])]]

\* log(requestId, ...): without a context the entry is printed and not kept
Log(lg, r) ==
  LET context == lg.requestContexts[r] IN
    IF ~context.present THEN lg
    ELSE [lg EXCEPT !.requestContexts[r] =
            [context EXCEPT !.eventCounter = context.eventCounter + 1,
                            !.logBuffer = Append(context.logBuffer,
                                                 [eventNumber |-> context.eventCounter + 1,
                                                  requestId |-> r])]]

\* createRequestContext(request): a new context, and the entry of the request
CreateRequestContext(lg, r) ==
  Log([lg EXCEPT !.requestContexts[r] =
         [present |-> TRUE, eventCounter |-> 0, logBuffer |-> <<>>]], r)

\* cleanupRequestContext(requestId): the completion entry, the flush, the delete
CleanupRequestContext(lg, r) ==
  LET context == lg.requestContexts[r] IN
    IF ~context.present THEN lg
    ELSE [lg EXCEPT !.output[r] =
                      Append(lg.output[r],
                             Append(context.logBuffer,
                                    [eventNumber |-> context.eventCounter + 1,
                                     requestId |-> r])),
                    !.requestContexts[r] = NoContext]

\* handleRequest begins for a request that has had no context
LogCreate(r) ==
  /\ ~logger.requestContexts[r].present
  /\ logger.output[r] = <<>>
  /\ logger' = CreateRequestContext(logger, r)
  /\ UNCHANGED <<genVars, emVars, relayVars, body, cpc, calls, response, inflight>>

\* some code of request r logs
LogCall(r) ==
  /\ logger.requestContexts[r].present
  /\ logger.requestContexts[r].eventCounter < MaxEvents
  /\ logger' = Log(logger, r)
  /\ UNCHANGED <<genVars, emVars, relayVars, body, cpc, calls, response, inflight>>

\* some code of request r cleans up
LogCleanup(r) ==
  /\ logger.requestContexts[r].present
  /\ logger' = CleanupRequestContext(logger, r)
  /\ UNCHANGED <<genVars, emVars, relayVars, body, cpc, calls, response, inflight>>

LoggerInit ==
  /\ upstream = [ok |-> TRUE, status |-> StatusOk, errorText |-> <<>>, hasBody |-> TRUE,
                 items |-> <<>>]
  /\ pos = 0
  /\ buffer = <<>>
  /\ gpc = "idle"
  /\ cur = Undefined
  /\ gerr = NoError
  /\ yielded = <<>>
  /\ hardCut = FALSE
  /\ EmInit
  /\ RelayIdle
  /\ body = <<>>
  /\ cpc = "none"
  /\ calls = 0
  /\ response = NoResponse
  /\ inflight = <<>>
  /\ logger = LoggerNew

LoggerNext == \E r \in RequestIds : LogCreate(r) \/ LogCall(r) \/ LogCleanup(r)

SpecLogger == LoggerInit /\ [][LoggerNext]_vars

\* the entries of buf belong to r and are numbered 1, 2, ... in buffer order
Numbered(buf, r) ==
  \A j \in 1..Len(buf) : buf[j].eventNumber = j /\ buf[j].requestId = r

\* C35: the entries buffered in a request context, and the entries of a buffer
\* that has been flushed, carry the numbers 1..n in buffer order, whatever the
\* other requests have logged in between
C35_EventNumbers ==
  \A r \in RequestIds :
    /\ Numbered(logger.requestContexts[r].logBuffer, r)
    /\ logger.requestContexts[r].eventCounter = Len(logger.requestContexts[r].logBuffer)
    /\ \A j \in 1..Len(logger.output[r]) : Numbered(logger.output[r][j], r)

\* two contexts hold buffers of different lengths while the buffer of a third
\* request has been flushed
C35_Witness ==
  /\ logger.requestContexts[1].eventCounter = 3
  /\ logger.requestContexts[2].eventCounter = 2
  /\ logger.output[3] # <<>>
  /\ Len(logger.output[3][1]) = 3

\* ------------------------------------------------------------------------
\* handleRequest for POST /chat: the logging context of a request, from
\* createRequestLogger to the cleanups of handleRequest and of the relay
\* ------------------------------------------------------------------------
\* s.includes(p)
Includes(s, p) == \E i \in 1..(Len(s) - Len(p) + 1) : SubSeq(s, i, i + Len(p) - 1) = p

\* body.includes('"stream":true') || body.includes('"stream": true')
IsStreamingRequest(b) ==
  \/ Includes(b, B_stream)
  \/ Includes(b, Key(W_stream) \o <<":", " ", "t", "r", "u", "e">>)

\* handleChatRequest hands the body to handleStreamingChat
StreamingRequest(b) ==
  LET parsed == JsonParse(b) IN
    /\ b # <<>>
    /\ parsed.ok
    /\ ~Nullish(parsed.v)
    /\ ~InvalidMessage(b)
    /\ Truthy(GetProp(parsed.v, W_stream))

\* the request bodies, and a streaming request written with a blank before the
\* colon
RequestBodies ==
  Bodies \cup {<<"{">> \o B_hi \o <<",">> \o Key(W_stream)
                 \o <<" ", ":", "t", "r", "u", "e", "}">>}

\* the requests that are followed
ServedIds == {1, 2}

RECURSIVE LogTimes(_, _, _)
LogTimes(lg, r, n) == IF n = 0 THEN lg ELSE LogTimes(Log(lg, r), r, n - 1)

\* handleRequest up to `await request.text()`
HandleRequestBegin(r) ==
  /\ inflight[r].pc = "none"
  /\ \E b \in RequestBodies :
       inflight' = [inflight EXCEPT ![r] = [pc |-> "handling", body |-> b, relay |-> "none"]]
  /\ logger' = LogTimes(CreateRequestContext(logger, r), r, 4)
  /\ UNCHANGED <<genVars, emVars, relayVars, body, cpc, calls, response>>

\* handleChatRequest returns its Response; for a streaming request the relay
\* has been launched
ChatHandled(r) ==
  /\ inflight[r].pc = "handling"
  /\ inflight' = [inflight EXCEPT ![r].pc = "handled",
                    ![r].relay = IF StreamingRequest(inflight[r].body)
                                 THEN "running" ELSE "none"]
  /\ logger' = Log(logger, r)
  /\ UNCHANGED <<genVars, emVars, relayVars, body, cpc, calls, response>>

\* handleRequest returns: a request it takes for a streaming one keeps its
\* context, any other is cleaned up
HandleRequestReturn(r) ==
  /\ inflight[r].pc = "handled"
  /\ inflight' = [inflight EXCEPT ![r].pc = "returned"]
  /\ logger' = IF IsStreamingRequest(inflight[r].body)
               THEN Log(logger, r)
               ELSE CleanupRequestContext(Log(logger, r), r)
  /\ UNCHANGED <<genVars, emVars, relayVars, body, cpc, calls, response>>

\* the finally block of processStreamingResponse
RelayFinally(r) ==
  /\ inflight[r].relay = "running"
  /\ inflight' = [inflight EXCEPT ![r].relay = "over"]
  /\ logger' = CleanupRequestContext(Log(logger, r), r)
  /\ UNCHANGED <<genVars, emVars, relayVars, body, cpc, calls, response>>

RequestInit ==
  /\ upstream = [ok |-> TRUE, status |-> StatusOk, errorText |-> <<>>, hasBody |-> TRUE,
                 items |-> <<>>]
  /\ pos = 0
  /\ buffer = <<>>
  /\ gpc = "idle"
  /\ cur = Undefined
  /\ gerr = NoError
  /\ yielded = <<>>
  /\ hardCut = FALSE
  /\ EmInit
  /\ RelayIdle
  /\ body = <<>>
  /\ cpc = "none"
  /\ calls = 0
  /\ response = NoResponse
  /\ inflight = [r \in ServedIds |-> [pc |-> "none", body |-> <<>>, relay |-> "none"]]
  /\ logger = LoggerNew

RequestNext ==
  \E r \in ServedIds :
    \/ HandleRequestBegin(r)
    \/ ChatHandled(r)
    \/ HandleRequestReturn(r)
    \/ RelayFinally(r)

SpecRequest == RequestInit /\ [][RequestNext]_vars

\* C36: when handleRequest has returned and the relay, if one was launched, is
\* over, the logger holds no context for the request and has flushed its
\* buffer exactly once
C36_CleanedOnce ==
  \A r \in ServedIds :
    (inflight[r].pc = "returned" /\ inflight[r].relay # "running") =>
       /\ ~logger.requestContexts[r].present
       /\ Len(logger.output[r]) = 1

\* C37: an iteration of the extraction loop either leaves the loop, with the
\* buffer as it was, or leaves a buffer that is strictly shorter
C37_LoopShortens ==
  gpc = "scan" =>
    LET step == ExtractStep(buffer) IN
      IF step.brk THEN step.buffer = buffer
      ELSE Len(step.buffer) < Len(buffer)

\* the loop is about to drop a span that does not give a fragment, with more
\* of the buffer to go through
C37_Witness ==
  /\ gpc = "scan"
  /\ ~ExtractStep(buffer).brk
  /\ ExtractStep(buffer).out = <<>>
  /\ ExtractStep(buffer).buffer # <<>>
  /\ ~JsonParse(SubSeq(buffer, 1, Len(buffer) - Len(ExtractStep(buffer).buffer))).ok

\* ------------------------------------------------------------------------
\* SSEStream without a request id: its start callback sends the first message,
\* the catch block of sendMessage calls sendError, sendError calls sendMessage,
\* and close() sets isClosed only when controller.close() has not thrown
\* ------------------------------------------------------------------------
\* how many nested sendMessage calls the call stack has room for
MaxStack == 3

\* whether the transport rejects no write, the next write, or every write
Faults == {"none", "once", "always"}

T_sendFailedPlain == <<"<message send failed>">>

\* sendMessage(message) with room nested calls left; without room the call of
\* sendError in the catch block throws a RangeError, which leaves every call
RECURSIVE SendMessagePlain(_, _, _, _)
SendMessagePlain(e, message, fault, room) ==
  IF e.isClosed \/ e.controller = "null" THEN e
  ELSE LET ser == Serialize(message) IN
    IF ser.ok /\ CtrlEnqueueOk(e.sink, fault # "none")
    THEN [e EXCEPT !.frames = Append(e.frames, ser.sseData)]
    ELSE IF room = 0 THEN [e EXCEPT !.threw = TRUE, !.raised = TRUE]
    ELSE SendMessagePlain([e EXCEPT !.threw = TRUE],
                          Msg(ERROR, JObj(<<W_error, W_timestamp>>,
                                          <<JStr(T_sendFailedPlain), JStr(NowIso)>>),
                              NowMs, <<>>),
                          IF fault = "once" THEN "none" ELSE fault, room - 1)

\* createStream(): start(controller) keeps the controller and sends the start
\* message
CreateStreamPlain(e) ==
  SendMessagePlain([e EXCEPT !.controller = "ctrl", !.sink = "readable"],
                   Msg(START, JStr(<<"<connected>">>), NowMs, <<>>), "none", MaxStack)

\* close()
ClosePlain(e) ==
  IF e.isClosed \/ e.controller = "null" THEN e
  ELSE IF CtrlClose(e.sink).threw THEN [e EXCEPT !.threw = TRUE]
  ELSE [e EXCEPT !.sink = CtrlClose(e.sink).sink, !.isClosed = TRUE]

PlainCreateStream ==
  /\ sink = "none"
  /\ SetEm(CreateStreamPlain(Em), "createStream")
  /\ UNCHANGED <<chatVars, clientGone, genVars, relayVars>>

PlainSendMessage ==
  /\ MaySend
  /\ \E message \in Messages, fault \in Faults :
       SetEm(SendMessagePlain(Em, message, fault, MaxStack), "sendMessage")
  /\ UNCHANGED <<chatVars, clientGone, genVars, relayVars>>

PlainSendDone ==
  /\ MaySend
  /\ timers < MaxTimers
  /\ \E fault \in Faults :
       SetEm([SendMessagePlain(Em, Msg(DONE, DefaultDone, NowMs, <<>>), fault, MaxStack)
                EXCEPT !.timers = timers + 1], "sendDone")
  /\ UNCHANGED <<chatVars, clientGone, genVars, relayVars>>

PlainClose ==
  /\ SetEm(ClosePlain(Em), "close")
  /\ UNCHANGED <<chatVars, clientGone, genVars, relayVars>>

\* the client disconnects: the stream is closed, then the cancel callback runs
PlainCancel ==
  /\ sink # "none"
  /\ ~clientGone
  /\ clientGone' = TRUE
  /\ SetEm(ClosePlain([Em EXCEPT !.sink = "closed"]), "cancel")
  /\ UNCHANGED <<chatVars, genVars, relayVars>>

PlainTimer ==
  /\ timers > 0
  /\ SetEm([ClosePlain(Em) EXCEPT !.timers = timers - 1], "timer")
  /\ UNCHANGED <<chatVars, clientGone, genVars, relayVars>>

PlainNext ==
  \/ PlainCreateStream
  \/ PlainSendMessage
  \/ PlainSendDone
  \/ PlainClose
  \/ PlainCancel
  \/ PlainTimer

SpecPlain == EmitterInit /\ [][PlainNext]_vars

\* C38: a sendMessage call inside which a write threw returns without raising
C38_SendReturns ==
  (lastOp.op = "sendMessage" /\ lastOp.threw) => ~lastOp.raised

====
